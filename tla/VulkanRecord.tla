---------------------------- MODULE VulkanRecord ----------------------------
(***************************************************************************)
(* waymux-session/src/vulkan_record.rs: the functions that talk to Vulkan, *)
(* as programs over GpuSteps.  A `?` with no clean-up is a step with an    *)
(* empty undo: what was created before it stays behind.                    *)
(***************************************************************************)
EXTENDS GpuSteps

-----------------------------------------------------------------------------
(* The device. *)

\* probe: an instance is created, the devices are listed, it is destroyed.
Probe == Try \o Make("instance") \o Try \o Free("instance")

\* VkDeviceCtx::open: loader, instance, the validation messenger, then the
\* choice of a physical device and the logical device.
OpenInstance == Try \o Make("instance") \o Option("messenger")
SelectPhysicalDevice == Try
OpenDevice == SelectPhysicalDevice \o Make("device")
OpenCtx == OpenInstance \o OpenDevice

DropCtx ==
  IdleUnlessWedged \o Free("device") \o FreeIf("messenger") \o Free("instance")

\* query_importable_bgra_modifiers: a device is opened for one question.
ImportableModifiers == OpenCtx \o DropCtx

-----------------------------------------------------------------------------
(* The video session: new_with_kind binds one allocation per requirement   *)
(* (two here), cleanup_partial frees the session and what was allocated.   *)

CleanupPartial(mems) == Frees(<<"session">> \o mems)

NewSession == Try \o Make("session") \o Else(Try, CleanupPartial(<<>>))

BindSession ==
  Else(Try \o Make("session_memory1"), CleanupPartial(<<>>))
    \o Else(Try \o Make("session_memory2"), CleanupPartial(<<"session_memory1">>))
    \o Else(Try, CleanupPartial(<<"session_memory1", "session_memory2">>))

\* create_parameters: the handle is stored before the header bytes are asked
\* for, so the session's own Drop frees it when they cannot be had.
CreateParameters == Make("parameters") \o Try \o Try

DropSession ==
  FreeIf("parameters") \o Frees(<<"session", "session_memory1", "session_memory2">>)

-----------------------------------------------------------------------------
(* The conversion pipelines (new, Drop). *)

BgraToNv12Pipeline ==
  Makes(<<"set_layout", "pipeline_layout", "shader", "pipeline",
          "descriptor_pool", "sampler">>)
BgraToYuv444Pipeline ==
  Makes(<<"set_layout", "pipeline_layout", "shader", "pipeline",
          "descriptor_pool", "sampler">>)

DropNv12Pipeline ==
  Frees(<<"sampler", "descriptor_pool", "pipeline", "shader",
          "pipeline_layout", "set_layout">>)
DropYuv444Pipeline ==
  Frees(<<"sampler", "descriptor_pool", "pipeline", "shader",
          "pipeline_layout", "set_layout">>)

-----------------------------------------------------------------------------
(* The per-recorder images and buffers (FrameResources, FrameResources444). *)

Buffer(buf, mem) == Make(buf) \o Make(mem) \o Try
LayerView(view) == Make(view)

NewPictures ==
  Image("bgra_image", "bgra_memory", "bgra_view")
    \o Image("nv12_image", "nv12_memory", "nv12_view")
NewDpb == Image("dpb_image", "dpb_memory", "dpb_view") \o LayerView("dpb_view2")
NewStorage ==
  Image("y_image", "y_memory", "y_view") \o Image("uv_image", "uv_memory", "uv_view")
NewBuffers ==
  Buffer("staging_buffer", "staging_memory") \o Buffer("encoded_buffer", "encoded_memory")
    \o Make("command_pool") \o Try \o Makes(<<"fence", "query_pool">>)
NewFrameResources == NewPictures \o NewDpb \o NewStorage \o NewBuffers

DropFrameResources ==
  Linger("fence")
    \o Frees(<<"query_pool", "fence", "command_pool", "encoded_buffer", "encoded_memory",
               "staging_buffer", "staging_memory", "nv12_view", "nv12_image", "nv12_memory",
               "dpb_view", "dpb_view2", "dpb_image", "dpb_memory",
               "uv_view", "uv_image", "uv_memory", "y_view", "y_image", "y_memory",
               "bgra_view", "bgra_image", "bgra_memory">>)

NewPictures444 ==
  Image("bgra_image", "bgra_memory", "bgra_view")
    \o Image("yuv_image", "yuv_memory", "yuv_view")
    \o Image("dpb_image", "dpb_memory", "dpb_view")
NewStorage444 ==
  Image("y_image", "y_memory", "y_view") \o Image("uv_image", "uv_memory", "uv_view")
NewBuffers444 ==
  Buffer("staging_buffer", "staging_memory") \o Buffer("encoded_buffer", "encoded_memory")
    \o Make("command_pool") \o Try \o Makes(<<"fence", "query_pool">>)
NewFrameResources444 == NewPictures444 \o NewStorage444 \o NewBuffers444

DropFrameResources444 ==
  Linger("fence")
    \o Frees(<<"query_pool", "fence", "command_pool", "encoded_buffer", "encoded_memory",
               "staging_buffer", "staging_memory", "yuv_view", "yuv_image", "yuv_memory",
               "dpb_view", "dpb_image", "dpb_memory",
               "uv_view", "uv_image", "uv_memory", "y_view", "y_image", "y_memory",
               "bgra_view", "bgra_image", "bgra_memory">>)

-----------------------------------------------------------------------------
(* Command buffers. *)

\* Staging buffer to the BGRA image, which the shader then samples.
UploadCmds ==
  Turn("bgra_image", "undefined", "dst") \o Touch("bgra_image", "dst")
    \o Turn("bgra_image", "dst", "shader")

\* The shader writes the Y and UV storage images, which are then copied.
ConvertCmds(src) ==
  Turn("y_image", "undefined", "general") \o Turn("uv_image", "undefined", "general")
    \o Touch(src, "shader") \o Touch("y_image", "general") \o Touch("uv_image", "general")
    \o Turn("y_image", "general", "src") \o Turn("uv_image", "general", "src")

\* Both planes of the encoder's picture are filled from the storage images.
PlanesCmds(dst) ==
  Turn(dst, "undefined", "dst") \o Touch("y_image", "src") \o Touch("uv_image", "src")
    \o Touch(dst, "dst")

\* The picture changes queue family: released here, acquired by the encode.
HandOver(dst) == Release(dst, "dst", "encode")

\* The encode queue's half: the picture is taken over, a DPB layer is set up
\* with its old contents given up, the picture is coded.
TakeOver(dst) == Acquire(dst, "dst", "encode")
SetUpSlot == Turn("dpb_image", "undefined", "dpb")
CodePicture(dst) == Touch(dst, "encode") \o Touch("dpb_image", "dpb")

\* What a conversion and an encode keep busy while they run.
ConvertUses == {"descriptor_pool", "pipeline", "sampler", "y_image", "uv_image", "y_view", "uv_view"}
UploadUses == ConvertUses \cup {"staging_memory", "bgra_image", "bgra_view"}
EncodeUses == {"command_pool", "session", "parameters", "query_pool", "dpb_image", "dpb_view",
               "encoded_buffer", "encoded_memory", "fence", "done_semaphore"}

-----------------------------------------------------------------------------
(* One picture. *)

\* encode_one_picture_on_encode_queue: record, submit, wait, read back.
RecordPicture == Reuse("command_pool") \o Try \o Try
\* (mistake) The slot keeps the layout it is assumed to have.
PictureCmdsKeepSlot ==
  TakeOver("nv12_image") \o Turn("dpb_image", "dpb", "dpb") \o CodePicture("nv12_image")
PictureCmds == TakeOver("nv12_image") \o SetUpSlot \o CodePicture("nv12_image")
ReadPicture == Try \o Try \o Try
EncodePicture ==
  RecordPicture
    \o Encode(EncodeUses \cup {"nv12_image", "nv12_view"}, PictureCmds, "fence")
    \o Await("fence") \o ReadPicture

\* A fresh descriptor set and a transient command buffer.
BeginConvert ==
  Reuse("descriptor_pool") \o Try \o Make("compute_pool") \o Try \o Try
SubmitConvert(objs, cmds) ==
  Try \o Make("done_semaphore") \o Reset("fence")
    \o Compute(objs \cup {"compute_pool", "done_semaphore"}, cmds, NoObject)

EndConvert == Frees(<<"done_semaphore", "compute_pool">>)

\* encode_idr_gpu_synthetic: the transient objects are destroyed whatever
\* became of the encode, not when an earlier call fails.
UploadBgra == Try \o Reuse("staging_memory")
BgraCmds ==
  UploadCmds \o ConvertCmds("bgra_image") \o PlanesCmds("nv12_image") \o HandOver("nv12_image")
ConvertBgra ==
  UploadBgra \o BeginConvert \o SubmitConvert(UploadUses \cup {"nv12_image"}, BgraCmds)
EncodeBgra == ConvertBgra \o Else(EncodePicture, EndConvert) \o EndConvert

\* encode_idr_from_dmabuf_impl: the descriptor is duplicated, imported, and
\* read in place of the BGRA image.
DescribeFrame ==
  Try \o Make("raw_fd") \o Else(MakeImage("dma_image", "undefined"), Free("raw_fd"))
ImportFrame ==
  DescribeFrame \o TryElse(<<"raw_fd", "dma_image">>)
    \o Else(Import("dma_memory", "raw_fd"), Frees(<<"raw_fd", "dma_image">>))
    \o Try \o Make("dma_view")
BeginFrameConvert ==
  Reuse("descriptor_pool") \o Try \o Make("compute_pool") \o Try \o Try
SampleFrame == Turn("dma_image", "undefined", "shader") \o ConvertCmds("dma_image")
FramePlanes == PlanesCmds("nv12_image") \o HandOver("nv12_image")
ConvertFrame ==
  SubmitConvert(ConvertUses \cup {"dma_image", "dma_view", "dma_memory", "nv12_image"},
                SampleFrame \o FramePlanes)
EndFrame == EndConvert \o Frees(<<"dma_view", "dma_image", "dma_memory">>)
\* (mistake) The imported frame is freed before the conversion is waited for.
EncodeDmabufFreesEarly ==
  ImportFrame \o BeginFrameConvert \o ConvertFrame \o Frees(<<"dma_view", "dma_image", "dma_memory">>)
    \o Else(EncodePicture, EndConvert) \o EndConvert
EncodeDmabuf ==
  ImportFrame \o BeginFrameConvert \o ConvertFrame \o Else(EncodePicture, EndFrame) \o EndFrame

\* encode_idr_synthetic: NV12 bytes straight into the picture.
UploadNv12 == Try \o Reuse("staging_memory") \o Make("compute_pool") \o Try \o Try
Nv12Cmds ==
  Turn("nv12_image", "undefined", "dst") \o Touch("nv12_image", "dst") \o HandOver("nv12_image")
TakeOverNv12 == Acquire("nv12_image", "dst", "encode")
CodeNv12 == SetUpSlot \o CodePicture("nv12_image")
ReadNv12 == Try \o Try \o Try
EncodeNv12 ==
  UploadNv12 \o SubmitConvert({"staging_memory", "nv12_image"}, Nv12Cmds) \o RecordPicture
    \o Encode(EncodeUses \cup {"nv12_image", "nv12_view"}, TakeOverNv12 \o CodeNv12, "fence")
    \o Await("fence") \o EndConvert \o ReadNv12

\* run_compute_only: the conversion alone, read back through a buffer.
BeginComputeOnly ==
  Try \o Reuse("staging_memory") \o Try \o Make("compute_pool") \o Try
    \o Buffer("readback_buffer", "readback_memory") \o Try
ComputeOnlyCmds ==
  UploadCmds \o Turn("nv12_image", "undefined", "general")
    \o Touch("bgra_image", "shader") \o Touch("nv12_image", "general")
    \o Turn("nv12_image", "general", "src") \o Touch("nv12_image", "src")
ComputeOnly ==
  BeginComputeOnly \o Try \o Make("compute_fence")
    \o Compute({"compute_pool", "compute_fence", "readback_buffer", "readback_memory", "descriptor_pool",
                "staging_memory", "bgra_image", "bgra_view", "nv12_image"},
               ComputeOnlyCmds, "compute_fence")
    \o Await("compute_fence") \o Free("compute_fence") \o Try
    \o Frees(<<"readback_buffer", "readback_memory", "compute_pool">>)

-----------------------------------------------------------------------------
(* 4:4:4. *)

\* encode_idr_gpu_synthetic_yuv444: every failure leaves the transients.
BeginYuv444 == Try \o Try \o Reuse("staging_memory") \o BeginConvert
Yuv444Cmds ==
  UploadCmds \o ConvertCmds("bgra_image") \o PlanesCmds("yuv_image") \o HandOver("yuv_image")
ConvertYuv444 == BeginYuv444 \o SubmitConvert(UploadUses \cup {"yuv_image"}, Yuv444Cmds)
TakeOverYuv444 == Acquire("yuv_image", "dst", "encode") \o SetUpSlot
CodeYuv444 == CodePicture("yuv_image")
ReadYuv444 == Try \o Try \o Try
EncodeYuv444 ==
  ConvertYuv444 \o RecordPicture
    \o Encode(EncodeUses \cup {"yuv_image", "yuv_view"}, TakeOverYuv444 \o CodeYuv444, "fence")
    \o Await("fence") \o EndConvert \o ReadYuv444

\* run_compute_yuv444_into_picture: the conversion, waited for with a fence
\* of its own; the picture stays with the compute queue family.
BeginIntoPicture == Try \o Reuse("staging_memory") \o BeginConvert
StorageCmds == UploadCmds \o ConvertCmds("bgra_image")
IntoPictureCmds == PlanesCmds("yuv_image") \o Turn("yuv_image", "dst", "encode")
SubmitIntoPicture ==
  Try \o Make("compute_fence")
    \o Compute(UploadUses \cup {"compute_pool", "compute_fence", "yuv_image"},
               StorageCmds \o IntoPictureCmds, "compute_fence")
    \o Await("compute_fence") \o Frees(<<"compute_fence", "compute_pool">>)
ComputeIntoPicture == BeginIntoPicture \o SubmitIntoPicture

\* dump_yuv444_picture_planes and dump_yuv444_storage_images, called after it.
Readback(img, cmds) ==
  Buffer("readback_buffer", "readback_memory") \o Make("compute_pool") \o Try \o Try \o Try
    \o Make("compute_fence")
    \o Compute({"compute_pool", "compute_fence", "readback_buffer", "readback_memory", img}, cmds, "compute_fence")
    \o Await("compute_fence") \o Frees(<<"compute_fence", "compute_pool">>) \o Try
    \o Frees(<<"readback_buffer", "readback_memory">>)
DumpPlanes ==
  Readback("yuv_image", Turn("yuv_image", "encode", "src") \o Touch("yuv_image", "src")
                          \o Turn("yuv_image", "src", "encode"))
DumpStorage == Readback("y_image", Touch("y_image", "src") \o Touch("uv_image", "src"))

-----------------------------------------------------------------------------
(* Source images for the libav encoders. *)

\* (mistake) The descriptor is closed although the import took it over.
ImportTransferSrcClosesFd ==
  Try \o Make("raw_fd")
    \o Else(MakeImage("in_image", "undefined"), Free("raw_fd"))
    \o TryElse(<<"raw_fd", "in_image">>)
    \o Else(Import("in_memory", "raw_fd"), Frees(<<"raw_fd", "in_image">>))
    \o TryElse(<<"raw_fd", "in_memory", "in_image">>)
ImportTransferSrc ==
  Try \o Make("raw_fd")
    \o Else(MakeImage("in_image", "undefined"), Free("raw_fd"))
    \o TryElse(<<"raw_fd", "in_image">>)
    \o Else(Import("in_memory", "raw_fd"), Frees(<<"raw_fd", "in_image">>))
    \o TryElse(<<"in_memory", "in_image">>)
UploadTransferSrc ==
  Try \o MakeImage("in_image", "preinitialized") \o TryElse(<<"in_image">>)
    \o MakeElse("in_memory", <<"in_image">>)
    \o TryElse(<<"in_memory", "in_image">>) \o TryElse(<<"in_memory", "in_image">>)
DestroyImported == Frees(<<"in_image", "in_memory">>)

-----------------------------------------------------------------------------
(* VkRecorder and VkRecorderLossless: try_new keeps each part in a local,  *)
(* so a failure drops the parts that were complete, newest first.          *)

OpenRecorder ==
  OpenCtx \o Else(NewSession \o BindSession, DropCtx)
    \o Else(CreateParameters, DropSession \o DropCtx)
    \o Else(NewFrameResources, DropSession \o DropCtx)
    \o Else(BgraToNv12Pipeline, DropFrameResources \o DropSession \o DropCtx)
DropRecorder == DropFrameResources \o DropNv12Pipeline \o DropSession \o DropCtx

OpenLossless ==
  OpenCtx \o Else(Try \o NewSession \o BindSession, DropCtx)
    \o Else(CreateParameters, DropSession \o DropCtx)
    \o Else(NewFrameResources444, DropSession \o DropCtx)
    \o Else(BgraToYuv444Pipeline, DropFrameResources444 \o DropSession \o DropCtx)
DropLossless == DropFrameResources444 \o DropYuv444Pipeline \o DropSession \o DropCtx
=============================================================================
