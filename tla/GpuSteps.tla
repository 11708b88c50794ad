------------------------------ MODULE GpuSteps ------------------------------
(***************************************************************************)
(* The vocabulary in which the encoder back ends are written down.         *)
(*                                                                         *)
(* The encoder back ends of waymux-session are straight-line code: a run   *)
(* of driver calls, most of which create something and may fail, with a    *)
(* clean-up written by hand on each failure path (or none: a plain `?`).   *)
(* Such a function is a PROGRAM here, a sequence of steps.  A step names   *)
(* the object it is about and the program its failure path runs before the *)
(* function returns the error; EncoderResources.tla executes programs.     *)
(***************************************************************************)
EXTENDS Sequences

NoObject == "none"

\* One step.  uses: the objects a submission keeps busy, or the descriptor an
\* import consumes.  cmds: the commands of the buffer that is submitted.
\* undo: the clean-up on the failure path.
Step(op, obj, uses, cmds) ==
  <<[op |-> op, obj |-> obj, uses |-> uses, cmds |-> cmds, undo |-> <<>>]>>

\* Create an object; the call may fail.
Make(o) == Step("make", o, {}, <<>>)
Makes(os) == [i \in DOMAIN os |-> Make(os[i])[1]]

\* Any other fallible call: bind, begin, end, map, reset, a size check.
Try == Step("try", NoObject, {}, <<>>)

\* Destroy an object.  FreeIf is the same behind a null check.
Free(o) == Step("free", o, {}, <<>>)
Frees(os) == [i \in DOMAIN os |-> Free(os[i])[1]]
FreeIf(o) == Step("freeif", o, {}, <<>>)

\* Create an object if it can be had: failing to is not an error.
Option(o) == Step("option", o, {}, <<>>)

\* Create an object unless an earlier call already did.
Lazily(o) == Step("lazily", o, {}, <<>>)

\* Import a file descriptor: on success the driver owns it.
Import(o, fd) == Step("import", o, {fd}, <<>>)

\* Rewrite an object the device may be reading: reset a command buffer or a
\* descriptor pool, map and fill the staging memory.  The call may fail.
Reuse(o) == Step("reuse", o, {}, <<>>)

\* Submit a command buffer that uses the objects; completion signals `fence`.
Compute(objs, cmds, fence) == Step("compute", fence, objs, cmds)
Encode(objs, cmds, fence) == Step("encode", fence, objs, cmds)
Reset(fence) == Step("reset", fence, {}, <<>>)

\* Wait for a fence with a timeout: an error, or (Linger) ignored.
Await(fence) == Step("await", fence, {}, <<>>)
Linger(fence) == Step("linger", fence, {}, <<>>)

\* Wait without a timeout for all submitted work: ignoring errors (Idle), the
\* same unless GPU_WEDGED is set, or as a call that may fail (Sync), or as one
\* whose failure is ignored (Drain).
Idle == Step("idle", NoObject, {}, <<>>)
IdleUnlessWedged == Step("idle_unless_wedged", NoObject, {}, <<>>)
Sync == Step("sync", NoObject, {}, <<>>)
Drain == Step("drain", NoObject, {}, <<>>)

\* The program whose every failure path ends with `undo`.
Else(prog, undo) ==
  [i \in DOMAIN prog |-> [prog[i] EXCEPT !.undo = @ \o undo]]

\* The same call, its failure answered by freeing the named objects.
MakeElse(o, os) == Else(Make(o), Frees(os))
TryElse(os) == Else(Try, Frees(os))

(***************************************************************************)
(* Commands of a command buffer, as far as they concern images: a layout   *)
(* transition, its two halves when the image also moves from the compute   *)
(* queue family to the encode one, and a use in a given layout.            *)
(***************************************************************************)
Command(op, img, from, to) == <<[op |-> op, img |-> img, from |-> from, to |-> to]>>

Turn(img, from, to) == Command("turn", img, from, to)
Release(img, from, to) == Command("release", img, from, to)
Acquire(img, from, to) == Command("acquire", img, from, to)
Touch(img, layout) == Command("touch", img, layout, layout)

\* A newly created image is in the layout its create-info names.
MakeImage(o, layout) == Step("make", o, {}, Command("init", o, layout, layout))

\* An image, its memory, the binding, a view.
Image(img, mem, view) ==
  MakeImage(img, "undefined") \o Make(mem) \o Try \o Make(view)
=============================================================================
