----------------------------- MODULE CudaRecord -----------------------------
(***************************************************************************)
(* waymux-session/src/cuda_nvenc_record.rs: EGL import, a CUDA conversion  *)
(* kernel and an NVENC session, as programs over GpuSteps.                 *)
(***************************************************************************)
EXTENDS GpuSteps

-----------------------------------------------------------------------------
(* Opening and dropping. *)

\* EglCtx::open.  An initialised display is not terminated when the entry
\* point for image import is missing.
EglOpen ==
  Make("drm_fd") \o MakeElse("gbm", <<"drm_fd">>)
    \o TryElse(<<"gbm", "drm_fd">>) \o TryElse(<<"gbm", "drm_fd">>)
    \o MakeElse("display", <<"gbm", "drm_fd">>) \o TryElse(<<"gbm", "drm_fd">>)
DropEgl == Frees(<<"display", "gbm", "drm_fd">>)

\* CudaLib::load resolves every entry point or answers None.
CudaLoad == Try
CudaOpen == CudaLoad \o Try \o Make("cuda_ctx")
DropCuda == Free("cuda_ctx")

\* load_csc_module: recording goes on without the kernel, encoding does not.
LoadCscModule == Option("cu_module")
DropModule == FreeIf("cu_module")

NvencOpen ==
  Try \o Try \o Make("nvenc") \o TryElse(<<"nvenc">>) \o TryElse(<<"nvenc">>)
    \o MakeElse("bitstream", <<"nvenc">>)
DropNvenc == Frees(<<"bitstream", "nvenc">>)

\* CudaRecorder::try_new, failures dropping the locals newest first.
OpenCuda ==
  EglOpen \o Else(CudaOpen, DropEgl) \o LoadCscModule
    \o Else(NvencOpen, DropModule \o DropCuda \o DropEgl)
    \o Else(Make("nv12_devptr"), DropNvenc \o DropModule \o DropCuda \o DropEgl)
DropCudaRecorder ==
  Free("nv12_devptr") \o FreeIf("input_array") \o DropNvenc \o DropModule \o DropCuda \o DropEgl

-----------------------------------------------------------------------------
(* One frame. *)

\* nvenc_encode_current_nv12: register, map, encode, lock, unlock, unmap.
NvencEncode ==
  Make("registered") \o MakeElse("mapped", <<"registered">>)
    \o TryElse(<<"mapped", "registered">>) \o TryElse(<<"mapped", "registered">>)
    \o Frees(<<"mapped", "registered">>)

\* encode_from_cuarray: the kernel reads the array through a texture object.
FromCuArray(array) ==
  Step("need", "cu_module", {}, <<>>) \o Try \o Make("texture")
    \o Else(Compute({"texture", "nv12_devptr", "cu_module"} \cup array, <<>>, NoObject) \o Sync,
            Free("texture"))
    \o Else(NvencEncode, Free("texture")) \o Free("texture")

\* (mistake) The EGL image is not freed when its registration fails.
CudaImportForgets ==
  Try \o Make("egl_image") \o Make("cu_resource")
    \o TryElse(<<"cu_resource", "egl_image">>) \o TryElse(<<"cu_resource", "egl_image">>)
\* encode_dmabuf: "Every early return unwinds exactly the resources acquired
\* so far in this call".
CudaImport ==
  Try \o Make("egl_image") \o MakeElse("cu_resource", <<"egl_image">>)
    \o TryElse(<<"cu_resource", "egl_image">>) \o TryElse(<<"cu_resource", "egl_image">>)
CudaDmabuf ==
  CudaImport \o Else(FromCuArray({"cu_resource", "egl_image"}), Frees(<<"cu_resource", "egl_image">>))
    \o Frees(<<"cu_resource", "egl_image">>)

\* encode_pixels keeps its array for the next call; reencode_last needs none.
CudaPixels == Try \o Lazily("input_array") \o Try \o FromCuArray({"input_array"})
CudaReencode == Try \o NvencEncode

\* reconfigure_bitrate changes the running session; nothing is made anew.
CudaReconfigure == Try
=============================================================================
