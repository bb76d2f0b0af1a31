------------------------------ MODULE GpuContext -------------------------------
(***************************************************************************)
(* What lib/grim/gfx creates before the first frame and destroys after the *)
(* last: the choice of queue families (context.h), the command pools and   *)
(* their buffers (command_buffer.h), the upload of the font through a      *)
(* staging buffer (buffer.h), and the objects of the render context and    *)
(* state (rendering.h).  The frames themselves are the module FrameLoop.   *)
(***************************************************************************)
EXTENDS Naturals, Sequences, FiniteSets, FiniteSetsExt, MainThread

CONSTANTS
  Devices       \* devices to consider: sequences of queue families, each a set of
                \* "graphics", "transfer", "present"

VARIABLES
  families,     \* the queue families of the device chosen
  graphics_idx, present_idx, transfer_idx,
  pools,        \* [family -> handle of its command pool, or "null"]
  buffers       \* [family -> what its command_buffers points at: "null", one
                \* live buffer for each frame in flight, or "freed" ones]

gpuVars == <<families, graphics_idx, present_idx, transfer_idx, pools, buffers>>

GpuOwners(o) ==
  CASE o = "vk_surface" -> {"instance"}
    [] o = "device" -> {"instance"}
    [] o = "swapchain" -> {"device", "vk_surface"}
    [] o \in {"slug_buff", "glyph_pipeline", "rect_pipeline", "transient", "resettable"} -> {"device"}
    [] OTHER -> {}

GpuInit ==
  /\ families \in Devices
  /\ graphics_idx = 0 /\ present_idx = 0 /\ transfer_idx = 0
  /\ pools = [f \in DOMAIN families |-> "null"]
  /\ buffers = [f \in DOMAIN families |-> "null"]

With(capability) == {f \in DOMAIN families : capability \in families[f]}

\* find_queue_families: the last family that can, and for transfers the last that
\* cannot draw as well; if there is none, the one for graphics.
FindQueueFamilies ==
  /\ graphics_idx' = Max(With("graphics"))
  /\ present_idx' = Max(With("present"))
  /\ LET apart == With("transfer") \ With("graphics") IN
       transfer_idx' = IF apart = {} THEN graphics_idx' ELSE Max(apart)

\* graphics_context_create, with surface_create, create_swapchain and the pool for
\* transfers.
GraphicsContextCreate ==
  /\ At("graphics_context_create")
  /\ FindQueueFamilies
  /\ pools' = [pools EXCEPT ![transfer_idx'] = "transient"]
  /\ alive' = alive \cup {"instance", "vk_surface", "device", "swapchain", "transient"}
  /\ GoTo("render_context_create")
  /\ UNCHANGED <<families, buffers>>

\* render_context_create: the pool for frames, unless its family has one.
RenderContextCreate ==
  /\ At("render_context_create")
  /\ IF pools[graphics_idx] = "null"
       THEN /\ pools' = [pools EXCEPT ![graphics_idx] = "resettable"]
            /\ buffers' = [buffers EXCEPT ![graphics_idx] = "frames"]
            /\ alive' = alive \cup {"glyph_pipeline", "rect_pipeline", "resettable"}
       ELSE /\ alive' = alive \cup {"glyph_pipeline", "rect_pipeline"}
            /\ UNCHANGED <<pools, buffers>>
  /\ GoTo("create_render_state")
  /\ UNCHANGED <<families, graphics_idx, present_idx, transfer_idx>>

\* Mutant: the copy is recorded in the pool for frames.
BufferCopyGraphics == buffers' = [buffers EXCEPT ![graphics_idx] = "freed"]
\* buffer_copy: create_command_buffers leaves the pool pointing at the one buffer that
\* carried the copy, which is freed when the copy is done.
BufferCopy == buffers' = [buffers EXCEPT ![transfer_idx] = "freed"]

\* create_render_state: the buffer for the font, filled through a staging buffer that
\* is gone when the call returns.
CreateRenderState ==
  /\ At("create_render_state")
  /\ alive' = alive \cup {"slug_buff"}
  /\ BufferCopy
  /\ GoTo("window_poll_events")
  /\ UNCHANGED <<families, graphics_idx, present_idx, transfer_idx, pools>>

\* cleanup_render_state, cleanup_render_context, cleanup_render_target and
\* cleanup_graphics_ctx, in main's order.
GpuCleanup == <<"slug_buff", "graphics_pool", "glyph_pipeline", "rect_pipeline", "swapchain",
                "vk_surface", "transfer_pool", "device", "instance">>

\* The family whose pool a call of GpuCleanup destroys: both may name the same one.
PoolOf(call) == IF call = "graphics_pool" THEN graphics_idx ELSE transfer_idx

\* cleanup_command_pool forgets the handle; destroying a null handle does nothing.
CleanupCommandPool(call) == pools' = [pools EXCEPT ![PoolOf(call)] = "null"]

GpuSteps == GraphicsContextCreate \/ RenderContextCreate \/ CreateRenderState

-------------------------------------------------------------------------------
(* Properties. *)

\* "try to find a transfer queue that does not support graphics": whichever family
\* carries the uploads, a frame finds the command buffers that were made for the
\* frames in flight, not what an upload left behind.
FrameBuffersLive == At("start_frame") => buffers[graphics_idx] = "frames"
===============================================================================
