----------------------------- MODULE FrameLoop ------------------------------
(***************************************************************************)
(* The render loop of main.c over gfx/rendering.h, swapchain.h, enqueue.h  *)
(* and sync_objects.h: one thread that polls the window, starts, draws and *)
(* ends frames, while the graphics queue executes what was submitted and   *)
(* the presentation engine shows what was presented, each in its own time. *)
(*                                                                         *)
(* A swapchain, with the semaphores, present fences and image views made   *)
(* for it, is one "generation".  Recreating the swapchain retires the      *)
(* generation into a ring of garbage, from which it is disposed once its   *)
(* presents are complete.                                                  *)
(*                                                                         *)
(* Fields and functions keep the code's names; a fence is TRUE when open.  *)
(* Of a size only being the window's own matters.  It is never zero: the   *)
(* Wayland window stores 1920 by 1080 in its place, an X11 window has at   *)
(* least one pixel; so main.c's loop for a window without size is not      *)
(* entered.                                                                *)
(***************************************************************************)
EXTENDS Naturals, Sequences, Functions

CONSTANTS Images,       \* image_count, which is also frames_in_flight
          Pow2Cap,      \* the capacity given to swapchain_garbage (5 in the code)
          Wrap,         \* frame_count is a u32: the value at which it wraps
          Sizes,        \* the sizes the window may have
          Generations,  \* names for swapchains, reused once free
          Backlog,      \* bound: presents that may be waiting to be shown
          None          \* no swapchain: VK_NULL_HANDLE, and an empty slot

ASSUME ImagesAssumption == Images \in 1 .. 3
ASSUME CapAssumption == Pow2Cap \in 1 .. 15
ASSUME WrapAssumption == Wrap \in Nat \ {0}
ASSUME SizesAssumption == Sizes # {}
ASSUME GenerationsAssumption == None \notin Generations
ASSUME BacklogAssumption == Backlog \in Nat \ {0}

INSTANCE RingBuff WITH Zero <- None

Indices == 0 .. Images - 1

VARIABLES
    pc,             \* where the main thread is
    window,         \* the size window_poll_events last stored
    extent,         \* render_target.extent
    resized,        \* render_target_resized
    request_close,  \* window->request_close
    frame_count,    \* render_state->frame_count
    image_idx,      \* render_state->image_idx
    swapchain,      \* the generation of render_target->swapchain
    garbage,        \* render_state->swapchain_garbage
    render_finish,  \* open_on_render_finish, one fence per frame in flight
    present_done,   \* open_on_present_complete, per generation and image
    submits,        \* what the graphics queue holds, oldest first
    presents,       \* what the present queue holds, oldest first
    owner           \* who has each image of the swapchain

cpu == <<window, extent, resized, request_close, frame_count, image_idx, swapchain>>
gpu == <<submits, presents, owner>>
fences == <<render_finish, present_done>>
vars == <<pc, cpu, garbage, fences, gpu>>

frame_idx == frame_count % Images
Frame == [gen |-> swapchain, frame |-> frame_idx, image |-> image_idx]
Shown == [gen |-> swapchain, image |-> image_idx]
Retired == Contents(garbage)

Opened == [i \in Indices |-> TRUE]

(* The generations created and not destroyed: those whose objects exist. *)
alive == DOMAIN present_done
Created(new) == [g \in alive \cup {new} |-> IF g = new THEN Opened ELSE present_done[g]]
Destroyed(gs) == [g \in alive \ gs |-> present_done[g]]

AllFree == [i \in Indices |-> "free"]

Init ==
    \E g \in Generations, size \in Sizes :
        /\ pc = "poll"
        /\ window = size /\ extent = size
        /\ resized = FALSE /\ request_close = FALSE
        /\ frame_count = 0 /\ image_idx = 0
        /\ swapchain = g
        /\ garbage = ring_buff_create_with_cap(Pow2Cap)
        /\ render_finish = Opened
        /\ present_done = [h \in {g} |-> Opened]
        /\ submits = << >> /\ presents = << >>
        /\ owner = AllFree
-----------------------------------------------------------------------------
\* Mutant: each poll overwrites the request.
PollForgets ==
    /\ window' \in Sizes
    /\ request_close' \in BOOLEAN

(* window_poll_events: any size may have been configured and the window    *)
(* may have been asked to close.                                           *)
PollEvents ==
    /\ window' \in Sizes
    /\ request_close' \in {request_close, TRUE}

Poll ==
    /\ pc = "poll"
    /\ PollEvents
    /\ resized' = (resized \/ window' # extent)
    /\ pc' = "wait"
    /\ UNCHANGED <<extent, frame_count, image_idx, swapchain, garbage, fences, gpu>>
-----------------------------------------------------------------------------
\* Mutant: the slot's fence is not waited for.
WaitSkipped ==
    /\ pc = "wait"
    /\ pc' = "acquire"
    /\ UNCHANGED <<cpu, garbage, fences, gpu>>

\* Mutant: the fence is closed before the image is acquired.
WaitAndClose ==
    /\ pc = "wait"
    /\ render_finish[frame_idx]
    /\ render_finish' = [render_finish EXCEPT ![frame_idx] = FALSE]
    /\ pc' = "acquire"
    /\ UNCHANGED <<cpu, garbage, present_done, gpu>>

(* start_frame waits for the fence of the frame that last used this slot.  *)
WaitForFence ==
    /\ pc = "wait"
    /\ render_finish[frame_idx]
    /\ pc' = "acquire"
    /\ UNCHANGED <<cpu, garbage, fences, gpu>>

(* vkAcquireNextImageKHR handed out an image (SUCCESS or SUBOPTIMAL): the  *)
(* fence is closed again and the command buffer reset.                     *)
AcquireImage ==
    /\ pc = "acquire"
    /\ \E i \in Indices :
          /\ owner[i] = "free"
          /\ image_idx' = i
          /\ owner' = [owner EXCEPT ![i] = "app"]
    /\ render_finish' = [render_finish EXCEPT ![frame_idx] = FALSE]
    /\ pc' = "draw"
    /\ UNCHANGED <<window, extent, resized, request_close, frame_count, swapchain, garbage,
                   present_done, submits, presents>>

(* recreate_swapchain and the push of what it retires: every semaphore and *)
(* present fence is made anew, the render fences stay.  The disposal of a  *)
(* ring that is now full is the caller's next step.                        *)
Free(g) == g \notin alive /\ \A k \in DOMAIN presents : presents[k].gen # g

\* Mutant: the new extent is taken only when a resize was noticed.
RecreateStale(full, next) ==
    /\ \E new \in Generations :
          /\ Free(new)
          /\ swapchain' = new
          /\ present_done' = Created(new)
    /\ owner' = AllFree
    /\ extent' = IF resized THEN window ELSE extent
    /\ garbage' = ring_buff_push(garbage, swapchain)
    /\ UNCHANGED resized
    /\ pc' = IF IsFull(garbage') THEN full ELSE next

Recreate(full, next) ==
    /\ \E new \in Generations :
          /\ Free(new)
          /\ swapchain' = new
          /\ present_done' = Created(new)
    /\ owner' = AllFree
    /\ extent' = window
    /\ garbage' = ring_buff_push(garbage, swapchain)
    /\ resized' = FALSE
    /\ pc' = IF IsFull(garbage') THEN full ELSE next

(* vkAcquireNextImageKHR said OUT_OF_DATE: start_frame returns false with  *)
(* the fence still open, and main.c starts over.                           *)
AcquireOutOfDate ==
    /\ pc = "acquire"
    /\ Recreate("drain_start", "poll")
    /\ UNCHANGED <<window, request_close, frame_count, image_idx, render_finish, submits,
                   presents>>

(* draw_frame: the recorded commands are submitted; they wait for the      *)
(* frame's image and signal the image's semaphore and the frame's fence.   *)
Submit ==
    /\ pc = "draw"
    /\ submits' = Append(submits, Frame)
    /\ pc' = "present"
    /\ UNCHANGED <<cpu, garbage, fences, presents, owner>>

(* enqueue_present: wait for the image's last present, close its fence and *)
(* queue it.  A present that reports OUT_OF_DATE is queued all the same,   *)
(* and once the window was resized its result is not looked at.            *)
Present ==
    /\ pc = "present"
    /\ present_done[swapchain][image_idx]
    /\ Len(presents) < Backlog
    /\ present_done' = [present_done EXCEPT ![swapchain][image_idx] = FALSE]
    /\ presents' = Append(presents, Shown)
    /\ owner' = [owner EXCEPT ![image_idx] = "queued"]
    /\ pc' \in {"presented"} \cup (IF resized THEN {} ELSE {"outdated"})
    /\ UNCHANGED <<cpu, garbage, render_finish, submits>>

(* The rest of end_frame: recreate when the present or the window said so, *)
(* else process_garbage.                                                   *)
EndRecreating ==
    /\ pc = "outdated" \/ (pc = "presented" /\ resized)
    /\ Recreate("drain_end", "frame_end")
    /\ UNCHANGED <<window, request_close, frame_count, image_idx, render_finish, submits,
                   presents>>

(* Any other result of the acquisition or of the submission, of a present  *)
(* that is looked at, or of making a swapchain, ends the program at once.  *)
ExitOnError ==
    /\ \/ pc \in {"acquire", "draw", "outdated"}
       \/ pc = "present" /\ ~resized
       \/ pc = "presented" /\ resized
    /\ pc' = "exited"
    /\ UNCHANGED <<cpu, garbage, fences, gpu>>

\* Mutant: one complete present is enough.
AnyPresentDone(g) == \E i \in Indices : present_done[g][i]

(* check_dispose_ready: every present of the generation is complete. *)
check_dispose_ready(g) == \A i \in Indices : present_done[g][i]

\* Mutant: the oldest generation is disposed and stays in the ring.
ProcessKeeps ==
    /\ pc = "presented" /\ ~resized
    /\ present_done' = IF ring_buff_peek(garbage) /\ check_dispose_ready(Oldest(garbage))
                       THEN Destroyed({Oldest(garbage)}) ELSE present_done
    /\ pc' = "frame_end"
    /\ UNCHANGED <<cpu, garbage, render_finish, gpu>>

\* Mutant: every present must be complete, of whichever generation.
ProcessWhenQuiet ==
    /\ pc = "presented" /\ ~resized
    /\ IF ring_buff_peek(garbage) /\ check_dispose_ready(Oldest(garbage)) /\ presents = << >>
       THEN /\ garbage' = ring_buff_pop(garbage)
            /\ present_done' = Destroyed({Oldest(garbage)})
       ELSE UNCHANGED <<garbage, present_done>>
    /\ pc' = "frame_end"
    /\ UNCHANGED <<cpu, render_finish, gpu>>

ProcessGarbage ==
    /\ pc = "presented" /\ ~resized
    /\ IF ring_buff_peek(garbage) /\ check_dispose_ready(Oldest(garbage))
       THEN /\ garbage' = ring_buff_pop(garbage)
            /\ present_done' = Destroyed({Oldest(garbage)})
       ELSE UNCHANGED <<garbage, present_done>>
    /\ pc' = "frame_end"
    /\ UNCHANGED <<cpu, render_finish, gpu>>

(* empty_garbage: after vkDeviceWaitIdle, which waits for the queues but   *)
(* not for the presentation engine, everything in the ring is disposed.    *)
\* Mutant: the device is not waited for.
EmptyAtOnce(caller, next) ==
    /\ pc = caller
    /\ present_done' = Destroyed(Range(Retired))
    /\ garbage' = [garbage EXCEPT !.data = [i \in DOMAIN @ |-> None], !.read = garbage.write]
    /\ pc' = next
    /\ UNCHANGED <<cpu, render_finish, gpu>>

EmptyGarbage(caller, next) ==
    /\ pc = caller
    /\ submits = << >>
    /\ present_done' = Destroyed(Range(Retired))
    /\ garbage' = [garbage EXCEPT !.data = [i \in DOMAIN @ |-> None], !.read = garbage.write]
    /\ pc' = next
    /\ UNCHANGED <<cpu, render_finish, gpu>>

DrainAfterStart == EmptyGarbage("drain_start", "poll")
DrainAfterEnd == EmptyGarbage("drain_end", "frame_end")

(* The end of end_frame and of the loop's body. *)
FrameEnd ==
    /\ pc = "frame_end"
    /\ frame_count' = (frame_count + 1) % Wrap
    /\ pc' = IF request_close THEN "cleanup" ELSE "poll"
    /\ UNCHANGED <<window, extent, resized, request_close, image_idx, swapchain, garbage,
                   fences, gpu>>

(* cleanup_render_state empties the garbage, then cleanup_render_target    *)
(* destroys the swapchain that is left.                                    *)
CleanupRenderState == EmptyGarbage("cleanup", "cleanup_target")

CleanupRenderTarget ==
    /\ pc = "cleanup_target"
    /\ present_done' = Destroyed({swapchain})
    /\ pc' = "done"
    /\ UNCHANGED <<cpu, garbage, render_finish, gpu>>
-----------------------------------------------------------------------------
(* The graphics queue completes its oldest submission; a process that      *)
(* exits on an error takes its queues with it.                             *)
GpuFinish ==
    /\ pc # "exited"
    /\ submits # << >>
    /\ submits' = Tail(submits)
    /\ render_finish' = [render_finish EXCEPT ![Head(submits).frame] = TRUE]
    /\ UNCHANGED <<pc, cpu, garbage, present_done, presents, owner>>

(* The presentation engine shows the oldest image queued once it has been  *)
(* rendered, and gives back the one it showed before.                      *)
Rendered(p) ==
    \A k \in DOMAIN submits : submits[k].gen # p.gen \/ submits[k].image # p.image

Displaying(image) ==
    [i \in Indices |-> CASE i = image -> "shown"
                         [] i # image /\ owner[i] = "shown" -> "free"
                         [] OTHER -> owner[i]]

PresentFinish ==
    /\ pc # "exited"
    /\ presents # << >>
    /\ Rendered(Head(presents))
    /\ LET p == Head(presents)
       IN  /\ present_done' = [g \in alive |->
                 IF g = p.gen THEN [present_done[g] EXCEPT ![p.image] = TRUE]
                              ELSE present_done[g]]
           /\ owner' = IF p.gen = swapchain THEN Displaying(p.image) ELSE owner
    /\ presents' = Tail(presents)
    /\ UNCHANGED <<pc, cpu, garbage, render_finish, submits>>

MainLoop ==
    \/ Poll \/ WaitForFence \/ AcquireImage \/ AcquireOutOfDate
    \/ Submit \/ Present \/ EndRecreating \/ ProcessGarbage \/ DrainAfterStart
    \/ DrainAfterEnd \/ FrameEnd \/ CleanupRenderState \/ CleanupRenderTarget

Ended == pc \in {"done", "exited"}
Finished == Ended /\ UNCHANGED vars

Next == MainLoop \/ ExitOnError \/ GpuFinish \/ PresentFinish \/ Finished

Spec == Init /\ [][Next]_vars

(* The thread and the device keep working, and the compositor does not     *)
(* call every swapchain out of date for ever.                              *)
Fairness ==
    /\ WF_vars(MainLoop)
    /\ WF_vars(GpuFinish)
    /\ WF_vars(PresentFinish)
    /\ SF_vars(AcquireImage)

FairSpec == Spec /\ Fairness
-----------------------------------------------------------------------------
Stages == {"poll", "wait", "acquire", "drain_start", "draw", "present",
           "presented", "outdated", "drain_end", "frame_end", "cleanup",
           "cleanup_target", "done", "exited"}

TypeOK ==
    /\ pc \in Stages
    /\ window \in Sizes /\ extent \in Sizes
    /\ resized \in BOOLEAN /\ request_close \in BOOLEAN
    /\ frame_count \in 0 .. Wrap - 1 /\ image_idx \in Indices
    /\ swapchain \in Generations /\ alive \subseteq Generations
    /\ garbage \in [data : [0 .. 2 ^ Pow2Cap - 1 -> Generations \cup {None}],
                    read : 0 .. 2 ^ Pow2Cap - 1, write : 0 .. 2 ^ Pow2Cap - 1,
                    cap : {2 ^ Pow2Cap}]
    /\ render_finish \in [Indices -> BOOLEAN]
    /\ present_done \in [alive -> [Indices -> BOOLEAN]]
    /\ submits \in Seq([gen : Generations, frame : Indices, image : Indices])
    /\ presents \in Seq([gen : Generations, image : Indices])
    /\ owner \in [Indices -> {"free", "app", "queued", "shown"}]

(* No semaphore, view or swapchain that a submission still uses is         *)
(* destroyed, whichever path disposes of it (dispose_swapchain_garbage,    *)
(* cleanup_swapchain).                                                     *)
GpuUsesLiveObjects == \A k \in DOMAIN submits : submits[k].gen \in alive

(* A frame slot's command buffer is reset and recorded, and its acquire    *)
(* semaphore used again, only when the queue is done with them; an image's *)
(* render semaphore is signalled again only after its present has used it. *)
SlotsAreExclusive ==
    /\ \A j, k \in DOMAIN submits :
          j # k => /\ submits[j].frame # submits[k].frame
                   /\ (submits[j].gen = submits[k].gen => submits[j].image # submits[k].image)
    /\ \A j, k \in DOMAIN presents : j # k => presents[j] # presents[k]
    /\ pc = "draw" => \A k \in DOMAIN submits : submits[k].frame # frame_idx
    /\ pc \in {"draw", "present"} => \A k \in DOMAIN presents : presents[k] # Shown

(* The fence of a slot is closed exactly while a submission will open it:  *)
(* a fence closed without one would stop start_frame for ever.             *)
FencesWillOpen ==
    pc # "exited" => \A f \in Indices :
        ~render_finish[f] <=> \/ \E k \in DOMAIN submits : submits[k].frame = f
                              \/ pc = "draw" /\ frame_idx = f

(* What was retired is in the ring, once and nowhere else, until it is     *)
(* destroyed: no swapchain is leaked, and none destroyed twice.            *)
GarbageAccounted ==
    /\ \A j, k \in DOMAIN Retired : j # k => Retired[j] # Retired[k]
    /\ pc # "done" => alive = Range(Retired) \cup {swapchain} /\ swapchain \notin Range(Retired)

(* The assertion of ring_buff_push never stops the program: the ring has a *)
(* free slot whenever a swapchain may be recreated.                        *)
RoomForGarbage ==
    pc \in {"acquire", "presented", "outdated"} => MayPush(garbage)

(* Every frame leaves the render target at the size of the window it was   *)
(* drawn for, so that no resize is forgotten.                              *)
ResizeTakesEffect == pc = "poll" => extent = window /\ ~resized

(* process_garbage destroys a generation only once each of its presents    *)
(* has been shown.                                                         *)
DisposedAfterPresents ==
    [][pc = "presented" =>
          \A g \in alive \ alive' : \A k \in DOMAIN presents : presents[k].gen # g]_vars

(* A close request ends the program, although it is tested only after a    *)
(* frame that could be started.                                            *)
CloseEnds == request_close ~> Ended

(* A retired swapchain does not stay for ever, whether it leaves by        *)
(* process_garbage, by a full ring or at the end.                          *)
GarbageIsDisposed ==
    \A g \in Generations :
        (g \in Range(Retired)) ~> (g \notin alive \/ Ended)
=============================================================================
