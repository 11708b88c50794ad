---------------------------- MODULE LibavRecord -----------------------------
(***************************************************************************)
(* The encoders that drive libav: hevc_vk_record.rs and ffv1_vk_record.rs  *)
(* (our Vulkan device, libav's frame pool and codec), vaapi_h264_record.rs *)
(* (libav's device too), and the closures of recording.rs that feed them.  *)
(* libav counts references to its own objects; what is modelled is each    *)
(* reference waymux-session holds.                                         *)
(***************************************************************************)
EXTENDS VulkanRecord

-----------------------------------------------------------------------------
(* HEVC (hevc_vk_record.rs). *)

AvPool == <<"hw_frames", "hw_device">>
AvCodec == <<"codec_ctx">> \o AvPool

\* open: device and frame pool, codec, then the command buffer of the copy.
HevcPool ==
  Try \o Make("hw_device") \o TryElse(<<"hw_device">>) \o TryElse(<<"hw_device">>)
    \o MakeElse("hw_frames", <<"hw_device">>) \o TryElse(AvPool) \o TryElse(AvPool)
HevcCodec ==
  TryElse(AvPool) \o MakeElse("codec_ctx", AvPool) \o TryElse(AvCodec)
    \o MakeElse("copy_pool", AvCodec) \o TryElse(<<"copy_pool">> \o AvCodec)

\* encode_one: the input is copied into a pool frame by a submission nobody
\* waits for, and the frame is sent to the codec.  A guard frees the frame.
\* libav keeps the pool image alive until its own semaphore is signalled.
CopyCmds(src, layout) == Turn(src, layout, "src") \o Touch(src, "src")
\* (mistake) The command pool is reset after the submission.
HevcCopyResetsLate ==
  Try \o Make("av_frame")
    \o Else(Try \o Try \o Try \o Try
              \o Compute({"copy_pool", "yuv_image"}, CopyCmds("yuv_image", "encode"), NoObject)
              \o Reuse("copy_pool"),
            Free("av_frame"))
HevcCopy ==
  Try \o Make("av_frame")
    \o Else(Try \o Try \o Reuse("copy_pool") \o Try \o Try
              \o Compute({"copy_pool", "yuv_image"}, CopyCmds("yuv_image", "encode"), NoObject),
            Free("av_frame"))

\* The receive loop: one packet, then the call that says there is no more.
Packets == Make("packet") \o TryElse(<<"packet">>) \o Free("packet")
             \o Make("packet") \o TryElse(<<"packet">>) \o Free("packet")
HevcSend == Else(Try \o Packets, Free("av_frame")) \o Free("av_frame")

\* flush drains the codec, which has waited for every copy it was sent.
HevcFlush == Drain

\* Drop leaves copy_pool to the device: "the OS reclaims the pool when the
\* device is destroyed".
DropHevc == Frees(AvCodec)

\* hevc_recording_thread: the parts, one frame, the end of the recording.
OpenHevcThread ==
  OpenCtx \o Else(Try \o NewFrameResources444, DropCtx)
    \o Else(BgraToYuv444Pipeline, DropFrameResources444 \o DropCtx)
    \o Else(HevcPool \o HevcCodec, DropYuv444Pipeline \o DropFrameResources444 \o DropCtx)
    \o Else(Try \o Try, DropHevc \o DropYuv444Pipeline \o DropFrameResources444 \o DropCtx)
HevcFrame == ComputeIntoPicture \o HevcCopy \o HevcSend \o Try
CloseHevcThread ==
  HevcFlush \o DropHevc \o DropYuv444Pipeline \o DropFrameResources444 \o DropCtx

-----------------------------------------------------------------------------
(* FFV1 (ffv1_vk_record.rs). *)

Ffv1Pool ==
  Try \o Make("hw_device") \o TryElse(<<"hw_device">>) \o TryElse(<<"hw_device">>)
    \o MakeElse("hw_frames", <<"hw_device">>) \o TryElse(AvPool) \o TryElse(AvPool)
Ffv1Codec ==
  TryElse(AvPool) \o MakeElse("codec_ctx", AvPool) \o TryElse(AvCodec)
    \o MakeElse("copy_pool", AvCodec) \o TryElse(<<"copy_pool">> \o AvCodec)
Ffv1Copy(layout) ==
  Try \o Make("av_frame")
    \o Else(Try \o Try \o Reuse("copy_pool") \o Try \o Try
              \o Compute({"copy_pool", "in_image", "in_memory"}, CopyCmds("in_image", layout), NoObject),
            Free("av_frame"))
Ffv1Send == Else(Try \o Packets, Free("av_frame")) \o Free("av_frame")
Ffv1Flush == Drain
DropFfv1 == Frees(AvCodec)

\* encode_imported: whatever encode_one answers, the device is idle before
\* the source image is destroyed; a write error destroys nothing.
EncodeImported(layout) ==
  Else(Try, DestroyImported)
    \o Else(Ffv1Copy(layout) \o Ffv1Send, Idle \o DestroyImported)
    \o Idle \o Try \o DestroyImported

OpenFfv1Thread ==
  OpenCtx \o Else(Ffv1Pool \o Ffv1Codec, DropCtx) \o Else(Try \o Try, DropFfv1 \o DropCtx)
Ffv1Dmabuf == ImportTransferSrc \o EncodeImported("undefined")
Ffv1Pixels == UploadTransferSrc \o EncodeImported("preinitialized")
CloseFfv1Thread == Ffv1Flush \o DropFfv1 \o DropCtx

-----------------------------------------------------------------------------
(* VA-API (vaapi_h264_record.rs). *)

\* build_h264_vaapi_ctx under the name its caller gives it.
BuildCodec(name, undo) == Else(Try \o Make(name), Frees(undo)) \o TryElse(<<name>> \o undo)

OpenVaapi ==
  Try \o Make("hw_device") \o MakeElse("hw_frames", <<"hw_device">>) \o TryElse(AvPool)
    \o BuildCodec("codec_ctx", AvPool)

\* send_and_drain: once the frame is sent, no outcome of the drain is an error
\* that leaves anything behind.
SendAndDrain == Try \o Make("packet") \o TryElse(<<"packet">>) \o Free("packet")

\* encode_nv12 and reencode_last: a software frame, a surface, the upload.
EncodeNv12Inner ==
  Try \o Make("sw_frame")
    \o Else(Try \o Make("hw_frame"), Free("sw_frame"))
    \o Else(Try \o Try \o SendAndDrain, Frees(<<"hw_frame", "sw_frame">>))
    \o Frees(<<"hw_frame", "sw_frame">>)

\* DmabufFilter::new; its clean-up closure frees the graph and both contexts.
DrmPool == <<"drm_frames", "drm_device">>
NewFilter ==
  Make("drm_device") \o MakeElse("drm_frames", <<"drm_device">>) \o TryElse(DrmPool)
    \o MakeElse("graph", DrmPool)
WireFilter == Else(Try \o Try \o Try, Frees(<<"graph">> \o DrmPool))
DropFilter == FreeIf("graph") \o FreeIf("drm_frames") \o FreeIf("drm_device")

\* map_to_nv12: the duplicated descriptor belongs to the frame's buffer.
MapToNv12 ==
  Make("drm_frame") \o MakeElse("dup_fd", <<"drm_frame">>)
    \o TryElse(<<"dup_fd", "drm_frame">>) \o TryElse(<<"dup_fd", "drm_frame">>)
    \o Frees(<<"dup_fd", "drm_frame">>)
    \o Make("nv12_frame") \o TryElse(<<"nv12_frame">>)

\* encode_dmabuf when the importer exists; one failure of the map drops the
\* importer for good.  The first call builds it.
FirstVaapiDmabuf == Try \o NewFilter \o WireFilter
VaapiDmabuf ==
  Try \o Else(MapToNv12, DropFilter) \o Else(SendAndDrain, Free("nv12_frame")) \o Free("nv12_frame")

\* reconfigure_bitrate: the new codec is open before the old one is freed.
Reconfigure == Try \o BuildCodec("new_ctx", <<>>) \o Free("codec_ctx") \o Step("rename", "codec_ctx", {"new_ctx"}, <<>>)

DropVaapi == Frees(AvCodec) \o DropFilter
=============================================================================
