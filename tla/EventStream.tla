----------------------------- MODULE EventStream -----------------------------
(***************************************************************************)
(* The desktop page watching one task: the task row and its event log, the *)
(* event endpoint (one bounded replay per connection, then the connection  *)
(* closes), the reconnecting TaskEventClient with its reducer, snapshots   *)
(* and result fetches, the cancel button, and the cursor that survives a   *)
(* page refresh in localStorage.                                           *)
(*                                                                         *)
(* Every HTTP exchange is split into its sending, the server's reads and   *)
(* the arrival of its answer, so answers overtake each other.              *)
(*                                                                         *)
(* A definition Name_Fault is not part of the model: it is Name with a     *)
(* plausible fault, kept to confirm that a property notices it.            *)
(***************************************************************************)
EXTENDS Naturals, Sequences, FiniteSetsExt

CONSTANTS MaxAsked,      \* bound: snapshot requests under way at a time
          MaxFaults      \* bound: dropped connections, failed fetches and reloads, together

ASSUME EventStreamAssumption ==
  MaxAsked \in Nat \ {0} /\ MaxFaults \in Nat

VARIABLES status,     \* intelligent_task.status
          log,        \* task_event, by sequence
          link,       \* the client's connection to the event endpoint
          page,       \* TaskStreamState and _lastEventId of the client
          screen,     \* what index.ts shows: the label, lastStatus, the result
          saved,      \* the cursor in localStorage
          snaps,      \* snapshot requests under way, and their answers
          fetching,   \* a result request is under way
          cancelling, \* the cancel button's request
          seen,       \* history: sequences shown or covered by a snapshot
          faults, refreshes

serverVars == <<status, log>>
pageVars == <<page, screen, saved, seen>>
callVars == <<snaps, fetching, cancelling>>
vars == <<serverVars, pageVars, callVars, link, faults, refreshes>>

None == "NONE"
Terminal == {"FAILED", "CANCELLED"}
Cancellable == {"QUEUED", "PLANNING", "WAITING_USER_INPUT", "RUNNING"}
Status == Cancellable \union {"CANCEL_REQUESTED"} \union Terminal

EventType == {"TASK_CREATED", "GOAL_UNDERSTANDING_COMPLETED", "USER_INPUT_REQUESTED",
              "PLAN_ACTIVATED", "PLAN_ITEM_READY", "TASK_CANCELLED"}
Streamable == EventType \ {"PLAN_ITEM_READY"}

\* Fault: a recorded cancellation is sent as if the task had already ended.
PayloadStatus_Early(type) == CASE type = "TASK_CREATED" -> "QUEUED"
                               [] type = "TASK_CANCELLED" -> "CANCELLED"
                               [] OTHER -> None

\* The status an event's payload carries to the client, if any.
PayloadStatus(type) == CASE type = "TASK_CREATED" -> "QUEUED"
                         [] type = "TASK_CANCELLED" -> "CANCEL_REQUESTED"
                         [] OTHER -> None

Frame == [sequence : Nat, type : EventType, display : {None}]
           \union [sequence : {0}, type : {"terminal"}, display : Terminal]
Link == [pc : {"waiting", "connecting", "listing", "open"}, cursor : Nat, frames : SUBSET Frame]
Page == [last : Nat, gap : BOOLEAN, display : Terminal \union {None}, cursor : Nat]
Screen == [label : Status \union {"BUSY", "SYNCING"}, known : Status \union {None}, result : BOOLEAN]
Snapshot == [status : Status, sequence : Nat]

TypeOK == /\ status \in Status /\ log \in Seq(EventType)
          /\ link \in Link /\ page \in Page /\ screen \in Screen
          /\ saved \in Nat
          /\ snaps \in [asked : Nat, answers : SUBSET Snapshot]
          /\ fetching \in BOOLEAN
          /\ cancelling \in {"idle", "asked", "refused"} \union Status
          /\ seen \subseteq Nat
          /\ faults \in 0..MaxFaults /\ refreshes \in 0..MaxFaults

Waiting == [pc |-> "waiting", cursor |-> 0, frames |-> {}]
NewPage(cursor) == [last |-> 0, gap |-> FALSE, display |-> None, cursor |-> cursor]
NewScreen == [label |-> "BUSY", known |-> None, result |-> FALSE]
NoSnaps == [asked |-> 0, answers |-> {}]

\* The page observes a task it has just created.
Init == /\ status = "QUEUED" /\ log = <<"TASK_CREATED">>
        /\ link = Waiting /\ page = NewPage(0) /\ screen = NewScreen
        /\ saved = 0 /\ snaps = NoSnaps
        /\ fetching = FALSE /\ cancelling = "idle"
        /\ seen = {} /\ faults = 0 /\ refreshes = 0

Logged(type) == \E n \in DOMAIN log : log[n] = type

-----------------------------------------------------------------------------
(* The task, as its writers move it: each step is one transaction *)

StartPlanning == status = "QUEUED" /\ status' = "PLANNING" /\ UNCHANGED log

\* READY_TO_PLAN keeps the task in PLANNING; a question to the user parks it.
CompleteGoal ==
  /\ status = "PLANNING" /\ ~ Logged("GOAL_UNDERSTANDING_COMPLETED")
  /\ \/ log' = Append(log, "GOAL_UNDERSTANDING_COMPLETED") /\ UNCHANGED status
     \/ /\ log' = log \o <<"GOAL_UNDERSTANDING_COMPLETED", "USER_INPUT_REQUESTED">>
        /\ status' = "WAITING_USER_INPUT"

\* One item of the plan starts READY; its event stays internal.
ActivatePlan ==
  /\ status = "PLANNING" /\ Logged("GOAL_UNDERSTANDING_COMPLETED")
  /\ status' = "RUNNING" /\ log' = log \o <<"PLAN_ACTIVATED", "PLAN_ITEM_READY">>

\* Another session of the owner asks for the cancellation.
CancelElsewhere ==
  status \in Cancellable /\ status' = "CANCEL_REQUESTED" /\ log' = Append(log, "TASK_CANCELLED")

\* The root workflow commits a terminal status; it appends no event.
CloseTask ==
  status \notin Terminal /\ status' \in Terminal /\ UNCHANGED log

WriterStep == /\ \/ StartPlanning \/ CompleteGoal \/ ActivatePlan \/ CancelElsewhere \/ CloseTask
              /\ UNCHANGED <<pageVars, callVars, link, faults, refreshes>>

-----------------------------------------------------------------------------
(* The page *)

\* deriveTaskView: a terminal display wins, then a gap, then the last status.
Label(p, known) == IF p.display # None THEN p.display
                   ELSE IF p.gap THEN "SYNCING"
                   ELSE IF known # None THEN known ELSE "BUSY"

Render(p) == screen' = [screen EXCEPT !.label = Label(p, screen.known)]

\* reduceTaskStream on a snapshot, and the client's own cursor: only forward.
WithSnapshot(p, s) == [p EXCEPT !.last = Max({p.last, s.sequence}), !.gap = FALSE,
                                !.cursor = Max({p.cursor, s.sequence})]

WithTerminal(p, display) == [p EXCEPT !.display = display, !.gap = FALSE]

Ignored(f) == page.display # None \/ f.sequence <= page.last

\* Fault: the cursor moves past a gap before the snapshot has filled it.
GapSeen_CursorMoves(f) == [page EXCEPT !.gap = TRUE, !.cursor = f.sequence]

\* A gap pauses the increments; nothing but a snapshot moves the client on.
GapSeen(f) == [page EXCEPT !.gap = TRUE]

EventSeen(f) == LET s == PayloadStatus(f.type) IN
  [page EXCEPT !.last = f.sequence, !.gap = FALSE, !.cursor = f.sequence,
               !.display = IF s \in Terminal THEN s ELSE None]

Persist(p) == saved' = IF p.last > 0 THEN p.last ELSE saved

IgnoreFrame(f) == /\ f.type # "terminal" /\ Ignored(f)
                  /\ UNCHANGED <<pageVars, snaps, fetching>>

\* Fault: while a snapshot is awaited no other is asked for, even when it was lost.
GapFrame_AskOnce(f) ==
  /\ f.type # "terminal" /\ ~ Ignored(f) /\ f.sequence # page.last + 1
  /\ snaps.asked + Cardinality(snaps.answers) < MaxAsked
  /\ snaps' = IF page.gap THEN snaps ELSE [snaps EXCEPT !.asked = @ + 1]
  /\ page' = GapSeen(f) /\ Render(page')
  /\ UNCHANGED <<saved, seen, fetching>>

GapFrame(f) ==
  /\ f.type # "terminal" /\ ~ Ignored(f) /\ f.sequence # page.last + 1
  /\ snaps.asked + Cardinality(snaps.answers) < MaxAsked
  /\ snaps' = [snaps EXCEPT !.asked = @ + 1]
  /\ page' = GapSeen(f) /\ Render(page')
  /\ UNCHANGED <<saved, seen, fetching>>

NextFrame(f) ==
  /\ f.type # "terminal" /\ ~ Ignored(f) /\ f.sequence = page.last + 1
  /\ page' = EventSeen(f) /\ Persist(page')
  /\ LET known == IF PayloadStatus(f.type) # None THEN PayloadStatus(f.type) ELSE screen.known
     IN screen' = [screen EXCEPT !.known = known, !.label = Label(page', known)]
  /\ seen' = seen \union {f.sequence}
  /\ UNCHANGED <<snaps, fetching>>

\* Fault: the result is asked for only when the display changes.
TerminalFrame_AskOnce(f) ==
  /\ f.type = "terminal" /\ fetching' = (fetching \/ page.display # f.display)
  /\ IF page.display = f.display
     THEN UNCHANGED <<page, screen, saved>>
     ELSE /\ page' = WithTerminal(page, f.display)
          /\ Persist(page') /\ Render(page')
  /\ UNCHANGED <<seen, snaps>>

\* The terminal frame; a repeated one only asks for the result again.
TerminalFrame(f) ==
  /\ f.type = "terminal" /\ fetching' = TRUE
  /\ IF page.display = f.display
     THEN UNCHANGED <<page, screen, saved>>
     ELSE /\ page' = WithTerminal(page, f.display)
          /\ Persist(page') /\ Render(page')
  /\ UNCHANGED <<seen, snaps>>

-----------------------------------------------------------------------------
(* The connection; its opening and its end render the page *)

\* The reconnect timer fires (or the first connect): Last-Event-ID is the cursor.
OpenStream ==
  /\ link.pc = "waiting"
  /\ link' = [pc |-> "connecting", cursor |-> page.cursor, frames |-> {}]
  /\ UNCHANGED <<serverVars, pageVars, callVars, faults, refreshes>>

TerminalFrames == {[sequence |-> 0, type |-> "terminal", display |-> status]}

\* The endpoint's first read: the row.  A terminal task gets its terminal frame and
\* no events; a cursor ahead of the row is refused.
ReadRow ==
  /\ link.pc = "connecting"
  /\ IF status \in Terminal \/ link.cursor > Len(log)
     THEN /\ link' = IF status \in Terminal THEN [link EXCEPT !.pc = "open", !.frames = TerminalFrames]
                     ELSE Waiting
          /\ Render(page)
     ELSE link' = [link EXCEPT !.pc = "listing"] /\ UNCHANGED screen
  /\ UNCHANGED <<serverVars, page, saved, seen, callVars, faults, refreshes>>

\* The events beyond the cursor that may leave the server, delivered by sequence.
Replay(from) == {[sequence |-> n, type |-> log[n], display |-> None] :
                   n \in {i \in (from + 1)..Len(log) : log[i] \in Streamable}}

\* Its second read, a later statement: the events beyond the cursor.
ListEvents ==
  /\ link.pc = "listing"
  /\ link' = [link EXCEPT !.pc = "open", !.frames = Replay(link.cursor)]
  /\ Render(page)
  /\ UNCHANGED <<serverVars, page, saved, seen, callVars, faults, refreshes>>

FirstFrame(f) == \A g \in link.frames : f.sequence <= g.sequence

DeliverFrame ==
  /\ link.pc = "open"
  /\ \E f \in link.frames :
       /\ FirstFrame(f) /\ link' = [link EXCEPT !.frames = @ \ {f}]
       /\ IgnoreFrame(f) \/ GapFrame(f) \/ NextFrame(f) \/ TerminalFrame(f)
  /\ UNCHANGED <<serverVars, cancelling, faults, refreshes>>

\* The replay is over: onClose schedules the next connection, after a terminal too.
CloseStream ==
  /\ link.pc = "open" /\ link.frames = {}
  /\ link' = Waiting /\ Render(page)
  /\ UNCHANGED <<serverVars, page, saved, seen, callVars, faults, refreshes>>

\* The connection breaks; the frames still on their way are lost.
DropStream ==
  /\ link.pc # "waiting" /\ faults + refreshes < MaxFaults /\ faults' = faults + 1
  /\ link' = Waiting /\ Render(page)
  /\ UNCHANGED <<serverVars, page, saved, seen, callVars, refreshes>>

-----------------------------------------------------------------------------
(* Snapshots, the result and the cancel button *)

AnswerSnapshot ==
  /\ snaps.asked > 0
  /\ snaps' = [asked |-> snaps.asked - 1,
               answers |-> snaps.answers \union {[status |-> status, sequence |-> Len(log)]}]
  /\ UNCHANGED <<serverVars, pageVars, link, fetching, cancelling, faults, refreshes>>

LoseSnapshot ==
  /\ snaps.asked > 0 /\ faults + refreshes < MaxFaults /\ faults' = faults + 1
  /\ snaps' = [snaps EXCEPT !.asked = @ - 1]
  /\ UNCHANGED <<serverVars, pageVars, link, fetching, cancelling, refreshes>>

AfterSnapshot(s) == LET p == WithSnapshot(page, s)
                    IN IF s.status \in Terminal THEN WithTerminal(p, s.status) ELSE p

ApplySnapshot ==
  /\ \E s \in snaps.answers :
       /\ snaps' = [snaps EXCEPT !.answers = @ \ {s}]
       /\ page' = AfterSnapshot(s)
       /\ seen' = seen \union 1..s.sequence
       /\ fetching' = (fetching \/ s.status \in Terminal)
  /\ Persist(page') /\ Render(page')
  /\ UNCHANGED <<serverVars, link, cancelling, faults, refreshes>>

ShowResult ==
  /\ fetching /\ fetching' = FALSE
  /\ screen' = [screen EXCEPT !.result = TRUE, !.label = Label(page, screen.known)]
  /\ UNCHANGED <<serverVars, page, saved, seen, snaps, link, cancelling, faults, refreshes>>

LoseResult ==
  /\ fetching /\ fetching' = FALSE /\ faults + refreshes < MaxFaults /\ faults' = faults + 1
  /\ UNCHANGED <<serverVars, pageVars, snaps, link, cancelling, refreshes>>

ClickCancel ==
  /\ cancelling = "idle" /\ cancelling' = "asked"
  /\ UNCHANGED <<serverVars, pageVars, snaps, fetching, link, faults, refreshes>>

\* decide_cancel, once more under the row lock: request it, or answer what there is.
AnswerCancel ==
  /\ cancelling = "asked"
  /\ IF status \in Cancellable
     THEN /\ status' = "CANCEL_REQUESTED" /\ log' = Append(log, "TASK_CANCELLED")
          /\ cancelling' = "CANCEL_REQUESTED"
     ELSE /\ cancelling' = IF status = "FAILED" THEN "refused" ELSE status
          /\ UNCHANGED serverVars
  /\ UNCHANGED <<pageVars, snaps, fetching, link, faults, refreshes>>

\* The answer is written to the label itself; a refusal or an error shows beside it.
ShowCancel ==
  /\ cancelling \notin {"idle", "asked"} /\ cancelling' = "idle"
  /\ screen' = IF cancelling = "refused" THEN screen
               ELSE [screen EXCEPT !.known = cancelling, !.label = cancelling]
  /\ UNCHANGED <<serverVars, page, saved, seen, snaps, fetching, link, faults, refreshes>>

LoseCancel ==
  /\ cancelling # "idle" /\ cancelling' = "idle" /\ faults + refreshes < MaxFaults /\ faults' = faults + 1
  /\ UNCHANGED <<serverVars, pageVars, snaps, fetching, link, refreshes>>

\* The window is reloaded and observes the same task again from the saved cursor.
Refresh ==
  /\ faults + refreshes < MaxFaults /\ refreshes' = refreshes + 1
  /\ page' = NewPage(saved) /\ screen' = NewScreen /\ link' = Waiting
  /\ snaps' = NoSnaps /\ fetching' = FALSE /\ cancelling' = "idle"
  /\ UNCHANGED <<serverVars, saved, seen, faults>>

Next == \/ WriterStep
        \/ OpenStream \/ ReadRow \/ ListEvents \/ DeliverFrame \/ CloseStream \/ DropStream
        \/ AnswerSnapshot \/ LoseSnapshot \/ ApplySnapshot
        \/ ShowResult \/ LoseResult
        \/ ClickCancel \/ AnswerCancel \/ ShowCancel \/ LoseCancel
        \/ Refresh

Spec == Init /\ [][Next]_vars

\* Timers fire, requests are answered and answers arrive; the task's writers, the
\* user and the faults owe nothing.
FairSpec == /\ Spec
            /\ WF_vars(OpenStream) /\ WF_vars(ReadRow) /\ WF_vars(ListEvents)
            /\ WF_vars(DeliverFrame) /\ WF_vars(CloseStream)
            /\ WF_vars(AnswerSnapshot) /\ WF_vars(ApplySnapshot) /\ WF_vars(ShowResult)

-----------------------------------------------------------------------------
(* Safety *)

\* The client never presents a cursor the server would refuse as being ahead.
CursorNotAhead == /\ page.cursor <= Len(log) /\ saved <= Len(log)
                  /\ link.pc # "waiting" => link.cursor <= Len(log)

\* Resuming from a cursor skips nothing: every streamable event up to it was shown
\* to the user, or was covered by a snapshot taken after it was written.
NothingSkipped == \A n \in 1..Max({page.cursor, saved}) : log[n] \in Streamable => n \in seen

\* The page says that the task has ended only when it has, and how it has; a
\* recorded cancellation, a stale answer or a late snapshot never makes it so.
TerminalIsTrue == /\ page.display # None => page.display = status
                  /\ screen.label \in Terminal => screen.label = status

\* Until the page is reloaded, a terminal display is never replaced or withdrawn by
\* an event, a snapshot or a frame that was still on its way.
TerminalKept == [][page.display # None => page'.display = page.display \/ refreshes' # refreshes]_vars

-----------------------------------------------------------------------------
(* Liveness *)

\* Once the task has ended, the page comes to say so, with its result, for good.
EndIsShown == <>[](status \in Terminal => page.display = status /\ screen.result)

\* Every streamable event reaches the page, or the page has shown the end instead.
EventsArrive == \A n \in 1..6 :
  (Len(log) >= n /\ log[n] \in Streamable) ~> (page.cursor >= n \/ page.display # None)
=============================================================================
