-------------------------- MODULE EncoderResources --------------------------
(***************************************************************************)
(* The life of one encoder: opened, used frame by frame, dropped, by the   *)
(* thread that owns it, with any call failing and any wait timing out,     *)
(* while the GPU works through what was submitted.  The programs are those *)
(* of VulkanRecord, LibavRecord and CudaRecord; this module runs them.     *)
(***************************************************************************)
EXTENDS LibavRecord, CudaRecord, Naturals, FiniteSets, SequencesExt

CONSTANTS Kind,        \* which encoders
          WEDGE_AFTER, \* consecutive empty frames after which a viewer gives up (90)
          MaxPending,  \* bound: submissions outstanding when a frame begins
          MaxLost      \* bound: objects left behind when a frame begins

ASSUME BoundsAssumption == WEDGE_AFTER \in Nat \ {0} /\ MaxPending \in Nat /\ MaxLost \in Nat

VARIABLES kind,     \* the encoder of this behaviour
          viewer,   \* it belongs to a viewer's encoder loop, not a recording
          stage,    \* "new", "opening", "ready", "busy", "closing", "gone"
          frame,    \* which function "busy" runs
          pc,       \* the step of it that is next, the one that failed on a failure path
          back,     \* 0, or the step of the failure path that is next
          alive,    \* objects some owner will still free
          lost,     \* objects a failure path left behind
          images,   \* layout and queue family of each image, in submission order
          pending,  \* submissions the GPU has not completed
          signaled, \* fences
          hung,     \* the GPU makes no more progress
          wedged,   \* GPU_WEDGED
          empties,  \* consecutive frames without output
          tried,    \* the dmabuf importer of the VA-API encoder was asked for
          faulted   \* a call failed, or a wait timed out, with work pending

vars == <<kind, viewer, stage, frame, pc, back, alive, lost, images, pending, signaled,
          hung, wedged, empties, tried, faulted>>

-----------------------------------------------------------------------------
(* What each kind of encoder runs. *)

OpenOf ==
  [vk |-> OpenRecorder, vktest |-> OpenRecorder, lossless |-> OpenLossless, hevc |-> OpenHevcThread,
   ffv1 |-> OpenFfv1Thread, vaapi |-> OpenVaapi, cuda |-> OpenCuda,
   probe |-> Probe, modifiers |-> ImportableModifiers,
   dump |-> OpenCtx \o Else(NewFrameResources444, DropCtx)
              \o Else(BgraToYuv444Pipeline, DropFrameResources444 \o DropCtx)]

CloseOf ==
  [vk |-> DropRecorder, vktest |-> DropRecorder, lossless |-> DropLossless, hevc |-> CloseHevcThread,
   ffv1 |-> CloseFfv1Thread, vaapi |-> DropVaapi, cuda |-> DropCudaRecorder,
   probe |-> <<>>, modifiers |-> <<>>,
   dump |-> DropYuv444Pipeline \o DropFrameResources444 \o DropCtx]

FramesOf ==
  [vk |-> [dmabuf |-> EncodeDmabuf, bgra |-> EncodeBgra],
   vktest |-> [nv12 |-> EncodeNv12, convert |-> ComputeOnly],
   lossless |-> [bgra |-> EncodeYuv444],
   hevc |-> [bgra |-> HevcFrame],
   ffv1 |-> [dmabuf |-> Ffv1Dmabuf, pixels |-> Ffv1Pixels],
   vaapi |-> [nv12 |-> EncodeNv12Inner, rate |-> Reconfigure, dmabuf |-> VaapiDmabuf,
              first |-> FirstVaapiDmabuf \o VaapiDmabuf],
   cuda |-> [dmabuf |-> CudaDmabuf, pixels |-> CudaPixels, last |-> CudaReencode,
             rate |-> CudaReconfigure],
   probe |-> <<>>, modifiers |-> <<>>,
   dump |-> [planes |-> ComputeIntoPicture \o DumpPlanes \o DumpStorage]]

\* The function being run.
Program ==
  CASE stage = "opening" -> OpenOf[kind]
    [] stage = "busy" -> FramesOf[kind][frame]
    [] stage = "closing" -> CloseOf[kind]
    [] OTHER -> <<>>

\* The recorder's fields: they outlive the call that fills them in.
Fields == {"input_array", "graph", "drm_frames", "drm_device"}
Owned(k) == {OpenOf[k][i].obj : i \in DOMAIN OpenOf[k]} \cup Fields

FreedBy(prog) == {prog[i].obj : i \in {j \in DOMAIN prog : prog[j].op \in {"free", "freeif"}}}

-----------------------------------------------------------------------------
(* Images. *)

ImageNames == {"bgra_image", "nv12_image", "yuv_image", "dpb_image", "y_image", "uv_image",
               "dma_image", "in_image"}

Fresh(layout) == [layout |-> layout, queue |-> "nobody"]

\* A command is right when the image is in the layout, and with the queue
\* family, the command says; from "undefined" the contents are given up.
Right(c, im, q) ==
  CASE c.op = "init" -> TRUE
    [] c.op = "turn" -> c.from = "undefined" \/ (im.layout = c.from /\ im.queue \in {"nobody", q})
    [] c.op = "touch" -> im.layout = c.from /\ im.queue = q
    [] c.op = "release" -> im.layout = c.from /\ im.queue = q
    [] c.op = "acquire" -> im = [layout |-> c.to, queue |-> "moving"]

After(c, q) ==
  CASE c.op = "init" -> Fresh(c.to)
    [] c.op \in {"turn", "touch", "acquire"} -> [layout |-> c.to, queue |-> q]
    [] c.op = "release" -> [layout |-> c.to, queue |-> "moving"]

Queue(op) == IF op = "encode" THEN "encode" ELSE "compute"

Obey(ims, c, q) == [ims EXCEPT ![c.img] = After(c, q)]
ObeyAll(ims, step) == FoldLeft(LAMBDA s, c : Obey(s, c, Queue(step.op)), ims, step.cmds)

\* Every command finds the images as the ones before it leave them.
AllRight(ims, step) ==
  \A i \in DOMAIN step.cmds :
    Right(step.cmds[i],
          ObeyAll(ims, [step EXCEPT !.cmds = SubSeq(@, 1, i - 1)])[step.cmds[i].img],
          Queue(step.op))

-----------------------------------------------------------------------------
Init ==
  /\ kind \in Kind /\ viewer \in BOOLEAN /\ (viewer => kind \in {"vk", "cuda", "vaapi"})
  /\ stage = "new" /\ frame = "none" /\ pc = 1 /\ back = 0
  /\ alive = {} /\ lost = {}
  /\ images = [i \in ImageNames |-> Fresh("undefined")]
  /\ pending = <<>> /\ signaled = {}
  /\ hung = FALSE /\ wedged = FALSE /\ empties = 0 /\ tried = FALSE /\ faulted = FALSE

Same == UNCHANGED <<kind, viewer, hung, wedged>>

Begin(s, n) ==
  /\ stage' = s /\ frame' = n /\ pc' = 1 /\ back' = 0
  /\ UNCHANGED <<kind, viewer, alive, lost, images, pending, signaled, hung, wedged, empties, faulted>>

BeginOpen == stage = "new" /\ Begin("opening", "none") /\ tried' = tried

\* encode_dmabuf of the VA-API encoder builds its importer on the first call,
\* and has none after a failure.
BeginFrame ==
  /\ stage = "ready" /\ ~wedged /\ Len(pending) <= MaxPending /\ Cardinality(lost) <= MaxLost
  /\ \E f \in DOMAIN FramesOf[kind] :
       /\ (kind = "vaapi" /\ f = "first") => ~tried
       /\ (kind = "vaapi" /\ f = "dmabuf") => "graph" \in alive
       /\ Begin("busy", f)
       /\ tried' = (tried \/ f = "first")

BeginClose == stage = "ready" /\ Begin("closing", "none") /\ tried' = tried

-----------------------------------------------------------------------------
(* One step of the function being run. *)

Running == stage \in {"opening", "busy", "closing"}
Done == IF back = 0 THEN pc > Len(Program) ELSE back > Len(Program[pc].undo)
step == IF back = 0 THEN Program[pc] ELSE Program[pc].undo[back]
At(ops) == Running /\ ~Done /\ step.op \in ops
Next1 == IF back = 0 THEN pc' = pc + 1 /\ back' = 0 ELSE back' = back + 1 /\ pc' = pc

DoMake ==
  /\ At({"make", "option", "lazily", "import"})
  /\ alive' = (alive \ step.uses) \cup {step.obj}
  /\ images' = ObeyAll(images, step)
  /\ signaled' = signaled \ {step.obj}
  /\ Next1 /\ Same /\ UNCHANGED <<stage, frame, lost, pending, empties, tried, faulted>>

DoWithout ==
  /\ At({"option"})
  /\ Next1 /\ Same
  /\ UNCHANGED <<stage, frame, alive, lost, images, pending, signaled, empties, tried, faulted>>

DoCall ==
  /\ At({"try", "reuse", "need"}) /\ (step.op = "need" => step.obj \in alive)
  /\ Next1 /\ Same
  /\ UNCHANGED <<stage, frame, alive, lost, images, pending, signaled, empties, tried, faulted>>

DoFree ==
  /\ At({"free", "freeif"})
  /\ alive' = alive \ {step.obj}
  /\ Next1 /\ Same
  /\ UNCHANGED <<stage, frame, lost, images, pending, signaled, empties, tried, faulted>>

DoRename ==
  /\ At({"rename"})
  /\ alive' = (alive \ step.uses) \cup {step.obj}
  /\ Next1 /\ Same
  /\ UNCHANGED <<stage, frame, lost, images, pending, signaled, empties, tried, faulted>>

DoSubmit ==
  /\ At({"compute", "encode"})
  /\ pending' = Append(pending, [queue |-> step.op, uses |-> step.uses, fence |-> step.obj])
  /\ images' = ObeyAll(images, step)
  /\ Next1 /\ Same
  /\ UNCHANGED <<stage, frame, alive, lost, signaled, empties, tried, faulted>>

DoReset ==
  /\ At({"reset"})
  /\ signaled' = signaled \ {step.obj}
  /\ Next1 /\ Same
  /\ UNCHANGED <<stage, frame, alive, lost, images, pending, empties, tried, faulted>>

DoWait ==
  /\ \/ At({"await", "linger"}) /\ step.obj \in signaled
     \/ At({"idle", "sync", "drain"}) /\ pending = <<>>
     \/ At({"idle_unless_wedged"}) /\ (wedged \/ pending = <<>>)
  /\ Next1 /\ Same
  /\ UNCHANGED <<stage, frame, alive, lost, images, pending, signaled, empties, tried, faulted>>

\* (mistake) A wait on an object is never given up.
GiveUpWaitingNever ==
  /\ At({"drain"})
  /\ faulted' = (faulted \/ pending # <<>>)
  /\ Next1 /\ Same
  /\ UNCHANGED <<stage, frame, alive, lost, images, pending, signaled, empties, tried>>
\* A wait whose failure the code ignores.
GiveUpWaiting ==
  /\ At({"linger", "drain"}) /\ (step.op = "linger" => step.obj \notin signaled)
  /\ faulted' = (faulted \/ pending # <<>>)
  /\ Next1 /\ Same
  /\ UNCHANGED <<stage, frame, alive, lost, images, pending, signaled, empties, tried>>

\* An error: the failure path runs, and what it does not free is left behind.
Fail ==
  /\ \/ At({"make", "import", "lazily", "try", "reuse", "reset", "compute", "encode", "sync"})
     \/ At({"await"}) /\ step.obj \notin signaled
     \/ At({"need"}) /\ step.obj \notin alive
  /\ back = 0 /\ back' = 1 /\ pc' = pc
  /\ LET orphans == (alive \ FreedBy(step.undo))
                      \ (IF stage = "opening" THEN {} ELSE Owned(kind))
     IN  lost' = lost \cup orphans /\ alive' = alive \ orphans
  /\ faulted' = (faulted \/ pending # <<>>)
  /\ Same /\ UNCHANGED <<stage, frame, images, pending, signaled, empties, tried>>

\* The function returns.  A viewer counts frames without output.
Return ==
  /\ Running /\ Done
  /\ stage' = IF stage = "closing" \/ (stage = "opening" /\ back # 0) THEN "gone" ELSE "ready"
  /\ empties' = IF ~(viewer /\ stage = "busy") THEN empties
                ELSE IF back # 0 THEN empties + 1 ELSE 0
  /\ wedged' = (wedged \/ empties' >= WEDGE_AFTER)
  /\ frame' = "none" /\ pc' = 1 /\ back' = 0
  /\ UNCHANGED <<kind, viewer, alive, lost, images, pending, signaled, hung, tried, faulted>>

-----------------------------------------------------------------------------
(* The GPU: each queue in order, an encode after the conversion it waits   *)
(* for.  It may hang.                                                      *)

Completes(i) ==
  /\ \A j \in 1..(i - 1) : pending[i].queue = "compute" /\ pending[j].queue = "encode"
  /\ pending' = RemoveAt(pending, i)
  /\ signaled' = signaled \cup ({pending[i].fence} \ {NoObject})

GpuCompletes ==
  /\ ~hung /\ \E i \in DOMAIN pending : Completes(i)
  /\ UNCHANGED <<kind, viewer, stage, frame, pc, back, alive, lost, images, hung, wedged, empties,
                 tried, faulted>>

GpuHangs ==
  /\ pending # <<>> /\ ~hung /\ hung' = TRUE
  /\ UNCHANGED <<kind, viewer, stage, frame, pc, back, alive, lost, images, pending, signaled,
                 wedged, empties, tried, faulted>>

-----------------------------------------------------------------------------
Run == \/ DoMake \/ DoWithout \/ DoCall \/ DoFree \/ DoRename \/ DoSubmit \/ DoReset \/ DoWait
       \/ GiveUpWaiting \/ Fail \/ Return

Next == BeginOpen \/ BeginFrame \/ BeginClose \/ Run \/ GpuCompletes \/ GpuHangs

\* The thread runs; a GPU that has not hung completes what it was given.
Spec == Init /\ [][Next]_vars /\ WF_vars(Run) /\ WF_vars(GpuCompletes)

-----------------------------------------------------------------------------
TypeOK ==
  /\ kind \in Kind /\ stage \in {"new", "opening", "ready", "busy", "closing", "gone"}
  /\ alive \cap {NoObject} = {} /\ empties \in 0..WEDGE_AFTER

\* No object is destroyed while the GPU may still use it.  Without a failed
\* call or a timeout this holds of every encoder; of the FFV1 recording, which
\* waits for the device before it destroys a source image, it always holds.
InUseIsKept ==
  (~faulted \/ kind = "ffv1") =>
    \A i \in DOMAIN pending : pending[i].uses \subseteq alive \cup lost

\* Nothing the GPU may be reading is rewritten: a command buffer, a descriptor
\* pool, the staging memory, a fence.  The copy buffer of the HEVC encoder is
\* submitted with no fence; that it is free again rests on the fence of the
\* next conversion, on the same queue, and survives failures and timeouts.
ReusedWhenIdle ==
  (At({"reuse", "reset"}) /\ (~faulted \/ step.obj = "copy_pool")) =>
    \A i \in DOMAIN pending : step.obj \notin pending[i].uses \cup {pending[i].fence}

\* What was made from what.
Needs(o) ==
  CASE o = "device" -> {"instance"}
    [] o = "messenger" -> {"instance"}
    [] o = "parameters" -> {"session"}
    [] o = "mapped" -> {"registered"}
    [] o \in {"registered", "bitstream"} -> {"nvenc"}
    [] o \in {"nvenc", "cu_module", "texture", "nv12_devptr", "input_array", "cu_resource"} -> {"cuda_ctx"}
    [] o = "egl_image" -> {"display"}
    [] o = "display" -> {"gbm"}
    [] o = "gbm" -> {"drm_fd"}
    [] o = "bgra_view" -> {"bgra_image"}
    [] o = "nv12_view" -> {"nv12_image"}
    [] o = "yuv_view" -> {"yuv_image"}
    [] o \in {"dpb_view", "dpb_view2"} -> {"dpb_image"}
    [] o = "dma_view" -> {"dma_image"}
    [] o \in {"copy_pool", "drm_fd", "instance", "cuda_ctx", "raw_fd", "dup_fd"} -> {}
    [] OTHER -> IF kind \in {"cuda", "vaapi"} THEN {} ELSE {"device"}

\* An object is freed once, and before what it was made from: no Drop and no
\* failure path frees what is not there, or pulls the ground from under an
\* object somebody will still free.
FreesAreOrdered ==
  /\ At({"free"}) => step.obj \in alive
  /\ At({"free", "freeif"}) => \A o \in alive : step.obj \notin Needs(o)

\* Nothing is taken away from who still uses it: not from the GPU, neither by
\* destroying nor by rewriting, and not from an object made from it.
ObjectsOutliveTheirUse == InUseIsKept /\ ReusedWhenIdle /\ FreesAreOrdered

\* Every command finds its images in the layout it names, owned by the queue
\* it runs on, whatever failed in the frames before.
ImagesAgree == At({"compute", "encode"}) => AllRight(images, step)

\* A dropped encoder leaves nothing but the HEVC and FFV1 command pool the
\* code says it leaves.  No failure path leaves a file descriptor, and those
\* of a CUDA or VA-API frame leave nothing.
NothingLeft ==
  /\ stage = "gone" => alive \subseteq {"copy_pool"}
  /\ lost \cap {"raw_fd", "dup_fd"} = {}
  /\ kind \in {"cuda", "vaapi"} => lost \subseteq {"display"}

\* Every call of an encoder returns unless the GPU hangs.
CallsReturn == Running ~> (stage \in {"ready", "gone"} \/ hung)

\* Dropping an encoder ends even on a GPU that hangs: "GPU_WEDGED ... Read by
\* teardown (Drop) paths so an unbounded device_wait_idle() is skipped on a
\* hung device".
TeardownEnds == stage = "closing" ~> stage = "gone"
=============================================================================
