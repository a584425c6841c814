----------------------------- MODULE EventLoop -----------------------------
(***************************************************************************)
(* EventLoop of td_revent (src/src/event_loop.rs): the main loop, one pass *)
(* of it, and the timer callbacks that run inside a pass.                  *)
(*                                                                         *)
(* The loop is single threaded, but it is not sequential: timer_process    *)
(* calls back into the program between taking a timer out of the table and *)
(* putting it back, do_select calls back for every socket event, and each  *)
(* callback may call any method of the loop it runs in.  So a step of this *)
(* module is one step of the loop or one call the program makes while the  *)
(* loop waits for a callback to return, and the wall clock moves between   *)
(* any two steps.                                                          *)
(*                                                                         *)
(* The selector appears here only through what run_once sees of it: the    *)
(* calls its callbacks make, and the number of events or the error it      *)
(* returns.                                                                *)
(***************************************************************************)
EXTENDS Timer

CONSTANTS
    Ops,           \* the methods the program calls
    DeleteFiring,  \* whether a callback may delete the timer it was called for
    MaxSize        \* bound: events one do_select handles

ASSUME OpsAssumption ==
    /\ Ops \subseteq {"add_new_timer", "add_new_timer_at", "add_timer", "del_timer", "shutdown"}
    /\ DeleteFiring \in BOOLEAN
    /\ MaxSize \in Nat

VARIABLES
    pc,      \* where the loop's thread is
    mode,    \* "run" or "run_once": the method the program called
    run,     \* EventLoop.run
    now,     \* timer_process's now, read once per pass
    size,    \* run_once's size
    is_op,   \* timer_process's is_op
    firing,  \* the entry timer_process holds: a set of at most one
    rearmed, \* history: entries put back in the table since the pass began
    deleted  \* history: entries whose id the program passed to del_timer, until it
             \* adds or drops them

loopVars == <<pc, mode, run, now, size, is_op, firing, rearmed, deleted>>
vars     == <<timerVars, loopVars>>

Points == {"out", "loop", "select", "sockets", "timers", "callback", "sleep"}

LoopTypeOK ==
    /\ pc \in Points
    /\ mode \in {"run", "run_once"}
    /\ run \in BOOLEAN
    /\ now \in 0 .. MaxNow
    /\ size \in 0 .. MaxSize
    /\ is_op \in BOOLEAN
    /\ firing \subseteq held
    /\ rearmed \subseteq timer_queue
    /\ deleted \subseteq timer_queue \cup held

TypeOK == TimerTypeOK /\ LoopTypeOK

(* EventLoop::configured. *)
Init ==
    /\ TimerInit
    /\ pc = "out" /\ mode = "run_once"
    /\ run = TRUE
    /\ now = 0 /\ size = 0 /\ is_op = FALSE
    /\ firing = {} /\ rearmed = {} /\ deleted = {}

-----------------------------------------------------------------------------
(* Calls of the program: before and after the loop runs, from the callbacks
   of sockets, and from the callback of the firing timer. *)
MayCall == ~ hung /\ pc \in {"out", "sockets", "callback"}

Call(op) ==
    /\ MayCall /\ op \in Ops
    /\ UNCHANGED <<pc, mode, now, size, is_op, firing>>

add_new_timer ==
    /\ Call("add_new_timer") /\ UNCHANGED <<run, rearmed, deleted>>
    /\ AddNewTimer

add_new_timer_at ==
    /\ Call("add_new_timer_at") /\ UNCHANGED <<run, rearmed, deleted>>
    /\ AddNewTimerAt

(* The program's own entries: built by a constructor or taken back from
   del_timer, added with add_timer, or dropped. *)
Owned == held \ firing

new_entry == Call("add_timer") /\ UNCHANGED <<run, rearmed, deleted>> /\ Construct

add_owned_timer ==
    /\ Call("add_timer") /\ UNCHANGED <<run, rearmed>>
    /\ \E e \in Owned, s \in Step \cup {0} : add_timer(e, s)
    /\ deleted' = deleted \cap held'

drop_owned ==
    /\ MayCall /\ UNCHANGED <<pc, mode, run, now, size, is_op, firing, rearmed>>
    /\ \E e \in Owned : drop_entry(e) /\ deleted' = deleted \ {e}

Named(i) == {e \in timer_queue \cup held : entry[e].time_id = i}

del ==
    /\ Call("del_timer") /\ UNCHANGED run
    /\ \E i \in Id : /\ DeleteFiring \/ \A e \in firing : entry[e].time_id # i
                     /\ del_timer(i)
                     /\ deleted' = deleted \cup Named(i)
    /\ rearmed' = rearmed \cap timer_queue'

shutdown ==
    /\ Call("shutdown") /\ UNCHANGED <<timerVars, rearmed, deleted>>
    /\ run' = FALSE

Calls == \/ add_new_timer \/ add_new_timer_at \/ new_entry \/ add_owned_timer
         \/ drop_owned \/ del \/ shutdown

-----------------------------------------------------------------------------
Goto(from, to) == ~ hung /\ pc = from /\ pc' = to

start_run ==
    /\ Goto("out", "loop")
    /\ run' = TRUE /\ mode' = "run"
    /\ UNCHANGED <<timerVars, now, size, is_op, firing, rearmed, deleted>>

start_run_once ==
    /\ Goto("out", "select")
    /\ mode' = "run_once"
    /\ UNCHANGED <<timerVars, run, now, size, is_op, firing, rearmed, deleted>>

loop_test_mut_endless ==
    /\ Goto("loop", "select")
    /\ UNCHANGED <<timerVars, mode, run, now, size, is_op, firing, rearmed, deleted>>

(* while self.run *)
loop_test ==
    /\ \/ run /\ Goto("loop", "select")
       \/ ~ run /\ Goto("loop", "out")
    /\ UNCHANGED <<timerVars, mode, run, now, size, is_op, firing, rearmed, deleted>>

ReadNow_mut_ahead == now' = clock + 1 /\ is_op' = FALSE /\ rearmed' = {}

(* timer_process begins: now is read. *)
ReadNow == now' = clock /\ is_op' = FALSE /\ rearmed' = {}

(* do_select times out: no event, no callback. *)
select_nothing ==
    /\ Goto("select", "timers") /\ ReadNow
    /\ size' = 0
    /\ UNCHANGED <<timerVars, mode, run, firing, deleted>>

(* do_select handles n events; their callbacks run at "sockets". *)
select_events ==
    /\ Goto("select", "sockets")
    /\ size' \in 1 .. MaxSize
    /\ UNCHANGED <<timerVars, mode, run, now, is_op, firing, rearmed, deleted>>

sockets_done ==
    /\ Goto("sockets", "timers") /\ ReadNow
    /\ UNCHANGED <<timerVars, mode, run, size, firing, deleted>>

(* The poll of do_select fails: `?` leaves run_once and run at once, and run
   stays as it is. *)
select_fails ==
    /\ Goto("select", "out")
    /\ UNCHANGED <<timerVars, mode, run, now, size, is_op, firing, rearmed, deleted>>

(* tick_time(now) returns an entry, whose callback is called. *)
fire ==
    /\ Goto("timers", "callback")
    /\ \E e \in Entry : tick_time(now, e) /\ firing' = {e} /\ rearmed' = rearmed \ {e}
    /\ is_op' = TRUE
    /\ UNCHANGED <<mode, run, now, size, deleted>>

(* The callback returned (ret, time).  Whether the timer is over, and if not,
   the tick_step it is added again with. *)
is_over(ret, e) == ret = "OVER" \/ (ret = "OK" /\ ~ entry[e].persist)
NewStep(ret, time, e) == IF ret = "CONTINUE" THEN time ELSE entry[e].tick_step

callback_returns_mut_holds(ret, time) ==
    /\ Goto("callback", "timers")
    /\ \E e \in firing :
          /\ \/ is_over(ret, e) /\ drop_entry(e)
             \/ ~ is_over(ret, e) /\ add_timer(e, NewStep(ret, time, e))
          /\ rearmed' = rearmed \cup (timer_queue' \ timer_queue)
    /\ deleted' = deleted \cap (timer_queue' \cup held')
    /\ UNCHANGED <<mode, run, now, size, is_op, firing>>

callback_returns(ret, time) ==
    /\ Goto("callback", "timers")
    /\ \E e \in firing :
          /\ \/ is_over(ret, e) /\ drop_entry(e)
             \/ ~ is_over(ret, e) /\ add_timer(e, NewStep(ret, time, e))
          /\ rearmed' = rearmed \cup (timer_queue' \ timer_queue)
    /\ firing' = {}
    /\ deleted' = deleted \cap (timer_queue' \cup held')
    /\ UNCHANGED <<mode, run, now, size, is_op>>

callback_return ==
    \E ret \in {"OK", "CONTINUE", "OVER"}, time \in Step \cup {0} : callback_returns(ret, time)

(* tick_time(now) returns None: run_once returns size != 0 || !is_op, and run
   sleeps when that is false.  The locals of the pass are gone. *)
run_once_result == size # 0 \/ ~ is_op

timers_done ==
    /\ NothingDue(now)
    /\ \/ mode = "run_once" /\ Goto("timers", "out")
       \/ mode = "run" /\ run_once_result /\ Goto("timers", "loop")
       \/ mode = "run" /\ ~ run_once_result /\ Goto("timers", "sleep")
    /\ now' = 0 /\ size' = 0 /\ is_op' = FALSE /\ rearmed' = {}
    /\ UNCHANGED <<timerVars, mode, run, firing, deleted>>

wake ==
    /\ Goto("sleep", "loop")
    /\ UNCHANGED <<timerVars, mode, run, now, size, is_op, firing, rearmed, deleted>>

(* The steps of the loop itself. *)
LoopStep == \/ loop_test \/ select_nothing \/ select_events \/ sockets_done \/ select_fails
            \/ fire \/ callback_return \/ timers_done \/ wake

Clock == Time /\ UNCHANGED loopVars

Next == Calls \/ start_run \/ start_run_once \/ LoopStep \/ Clock

Spec == Init /\ [][Next]_vars

(* Scheduling: the thread runs, callbacks return, and time passes.  Nothing
   obliges the program to call a method or to start the loop. *)
Fairness == WF_vars(LoopStep) /\ WF_vars(AdvanceClock /\ Clock)

FairSpec == Spec /\ Fairness

-----------------------------------------------------------------------------
(* No step of a pass reads a deadline earlier than the clock by overflow. *)
NoOverflow == \A s \in Step : MaxNow + s <= U64Max

(* A timer never fires before its deadline, although the deadline is compared
   with a time read before any callback of the pass ran (event_loop.rs:204-207).
   Needs a wall clock that is not set back. *)
NeverEarly == \A e \in firing : entry[e].tick_ms <= clock

(* A timer put back in the table during a pass is not due in it any more: its
   next deadline is after the time the pass compares with. *)
RearmedIsLater ==
    pc \in {"timers", "callback"} => \A e \in rearmed : entry[e].tick_ms > now

(* No timer fires twice in one pass of timer_process, whatever its callbacks
   add, delete or return (event_loop.rs:206-226).  Needs a wall clock that is
   not set back, and no overflow of now + tick_step. *)
OncePerPass == [][fire => firing' \cap rearmed = {}]_vars

(* del_timer is final (event_loop.rs:142-145): a deleted id neither waits in
   the table nor fires until the program adds it again. *)
DeletedStaysSilent == deleted \cap (timer_queue \cup firing) = {}

(* timer.rs:108: "take a new, non-conflicting timer id; if it repeats an
   allocated timer id, go on to the next".  Read of every timer that is alive,
   armed or firing: a newly issued id is the id of none of them. *)
NewIdIsUnallocated ==
    [][\A e \in Vacant : e \in timer_queue' =>
          \A f \in timer_queue \cup firing : entry[f].time_id # entry'[e].time_id]_vars

(* event_loop.rs:111: a repeating timer is called "until the callback returns
   OVER, or the timer is deleted": a timer whose id was passed to del_timer
   while its callback ran is not armed again when the callback returns. *)
DeletedTimerStops == [][callback_return => deleted \cap timer_queue' = {}]_vars

(* event_loop.rs:202: "if the callback returns OVER or the timer is not a
   repeating one, the timer is deleted". *)
NonRepeatingIsDeleted ==
    [][callback_return => \A e \in firing : ~ entry[e].persist => e \notin timer_queue']_vars

(* event_loop.rs:112: "if time_step is 0, adding the timer fails". *)
ZeroStepIsRefused ==
    [][add_new_timer => \A e \in timer_queue' \ timer_queue : entry'[e].tick_step # 0]_vars

(* event_loop.rs:83: "if nothing was processed in this turn of the loop, force
   the CPU to sleep 1ms": a turn that handled an event or a timer goes on
   without sleeping, and one that handled none sleeps. *)
SleepsOnlyWhenIdle ==
    [][(timers_done /\ mode = "run") => (pc' = "sleep") = (size = 0 /\ ~ is_op)]_vars

(* While the loop runs, a due timer leaves the table, fired or deleted: a
   callback that keeps adding timers cannot starve the ones already due
   (event_loop.rs:206-226). *)
DueTimerFires ==
    \A e \in Entry : (e \in timer_queue /\ entry[e].tick_ms <= clock /\ mode = "run" /\ pc # "out")
                        ~> (e \notin timer_queue \/ pc = "out")

(* event_loop.rs:67: after shutdown the loop exits. *)
ShutdownExits == (mode = "run" /\ ~ run) ~> (pc = "out")

(* The promise of TimerService, with the armed ids in time_maps, the issued
   ones up to the cursor of calc_new_id, and the id of the running callback. *)
FiringIds == {entry[e].time_id : e \in firing}

Service == INSTANCE TimerService WITH
               Time <- Tick, issued <- 1 .. time_id, armed <- time_maps, firing <- FiringIds

(* The loop, its tree and its map behave as that service: ids are issued once,
   cancelling is exact, timers fire the earliest first and none early
   (event_loop.rs:105-145, 203-227).  Needs ids that do not come round and a
   wall clock that is not set back. *)
ImplementsTimerService == Service!Spec
=============================================================================
