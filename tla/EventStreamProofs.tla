-------------------------- MODULE EventStreamProofs --------------------------
(***************************************************************************)
(* What holds of the page that watches a task, for every number of faults, *)
(* reloads and snapshots: resuming skips no event, cursors never run ahead *)
(* of the log, and a terminal display is true and final.                   *)
(*                                                                         *)
(* The inductive invariant adds to those properties what is under way:     *)
(* frames, snapshot answers and the answer of the cancel button each tell  *)
(* of a past moment of the task, and the past moments that matter last,    *)
(* because the log only grows and a terminal status is never left.         *)
(***************************************************************************)
EXTENDS EventStream, TLAPS

\* What a frame on its way may say.
FrameTrue(f) == IF f.type = "terminal" THEN f.display = status
                ELSE /\ f.sequence \in 1..Len(log) /\ f.type \in Streamable /\ f.display = None
                     /\ log[f.sequence] = f.type

SnapshotTrue(s) == s.sequence <= Len(log) /\ (s.status \in Terminal => s.status = status)

InFlightTrue == /\ \A f \in link.frames : FrameTrue(f)
                /\ \A s \in snaps.answers : SnapshotTrue(s)
                /\ cancelling \in Terminal => cancelling = status

\* The reducer is never ahead of the client's cursor, and the status it remembers
\* is terminal only if the task has ended that way.
PageInv == /\ page.last <= page.cursor
           /\ page.cursor <= Len(log) /\ saved <= Len(log) /\ link.cursor <= Len(log)
           /\ screen.known \in Terminal => screen.known = status

IInv == /\ TypeOK /\ InFlightTrue /\ PageInv /\ NothingSkipped /\ TerminalIsTrue

-----------------------------------------------------------------------------
(* Operators of the model *)

LEMMA MaxOfTwo ==
  ASSUME NEW a \in Nat, NEW b \in Nat
  PROVE /\ Max({a, b}) \in Nat /\ Max({a, b}) >= a /\ Max({a, b}) >= b
        /\ Max({a, b}) = a \/ Max({a, b}) = b
  <1>1. \E x \in {a, b} : \A y \in {a, b} : x >= y
    <2>1. CASE a >= b BY <2>1
    <2>2. CASE ~ (a >= b) BY <2>2
    <2>. QED BY <2>1, <2>2
  <1>2. Max({a, b}) = CHOOSE x \in {a, b} : \A y \in {a, b} : x >= y
    BY Zenon DEF Max
  <1>. QED BY <1>1, <1>2

LEMMA PayloadIsOpen ==
  ASSUME NEW type \in EventType
  PROVE PayloadStatus(type) \in {"QUEUED", "CANCEL_REQUESTED", None}
  BY DEF PayloadStatus, EventType, None

LEMMA StatusFacts == None \notin Status /\ Terminal \subseteq Status /\ "terminal" \notin EventType
  BY DEF None, Status, Terminal, Cancellable, EventType

\* The fields of a page after a frame or a snapshot.
LEMMA EventSeenFields ==
  ASSUME page \in Page, NEW f \in Frame, f.type \in EventType
  PROVE /\ EventSeen(f) \in Page
        /\ EventSeen(f).last = f.sequence /\ EventSeen(f).cursor = f.sequence
        /\ EventSeen(f).display = None /\ EventSeen(f).gap = FALSE
  <1>1. f.sequence \in Nat BY DEF Frame
  <1>2. PayloadStatus(f.type) \notin Terminal
    BY PayloadIsOpen DEF Terminal, None
  <1>3. EventSeen(f) = [page EXCEPT !.last = f.sequence, !.gap = FALSE, !.cursor = f.sequence,
                                    !.display = None]
    BY <1>2, Zenon DEF EventSeen
  <1>. QED BY <1>1, <1>3 DEF Page

LEMMA GapSeenFields ==
  ASSUME page \in Page, NEW f
  PROVE /\ GapSeen(f) \in Page
        /\ GapSeen(f).last = page.last /\ GapSeen(f).cursor = page.cursor
        /\ GapSeen(f).display = page.display
  BY DEF GapSeen, Page

LEMMA TerminalFields ==
  ASSUME NEW p \in Page, NEW d \in Terminal
  PROVE /\ WithTerminal(p, d) \in Page
        /\ WithTerminal(p, d).last = p.last /\ WithTerminal(p, d).cursor = p.cursor
        /\ WithTerminal(p, d).display = d
  BY DEF WithTerminal, Page

LEMMA SnapshotFields ==
  ASSUME page \in Page, NEW s \in Snapshot
  PROVE /\ WithSnapshot(page, s) \in Page
        /\ WithSnapshot(page, s).last = Max({page.last, s.sequence})
        /\ WithSnapshot(page, s).cursor = Max({page.cursor, s.sequence})
        /\ WithSnapshot(page, s).display = page.display
  <1>1. s.sequence \in Nat /\ page.last \in Nat /\ page.cursor \in Nat BY DEF Snapshot, Page
  <1>2. Max({page.last, s.sequence}) \in Nat /\ Max({page.cursor, s.sequence}) \in Nat
    BY <1>1, MaxOfTwo
  <1>3. \A a, b \in Nat : LET p == [page EXCEPT !.last = a, !.gap = FALSE, !.cursor = b]
                          IN p \in Page /\ p.last = a /\ p.cursor = b /\ p.display = page.display
    BY DEF Page
  <1>. QED BY <1>2, <1>3, Zenon DEF WithSnapshot

LEMMA AfterSnapshotFields ==
  ASSUME page \in Page, NEW s \in Snapshot
  PROVE /\ AfterSnapshot(s) \in Page
        /\ AfterSnapshot(s).last = Max({page.last, s.sequence})
        /\ AfterSnapshot(s).cursor = Max({page.cursor, s.sequence})
        /\ AfterSnapshot(s).display = IF s.status \in Terminal THEN s.status ELSE page.display
  <1>1. CASE s.status \in Terminal
    BY <1>1, SnapshotFields, TerminalFields, Zenon DEF AfterSnapshot
  <1>2. CASE s.status \notin Terminal
    BY <1>2, SnapshotFields, Zenon DEF AfterSnapshot
  <1>. QED BY <1>1, <1>2

\* Rendering changes the label alone, and the label ends only with the page or with
\* the remembered status.
LEMMA LabelValues ==
  ASSUME NEW p \in Page, NEW known \in Status \union {None}
  PROVE /\ Label(p, known) \in Status \union {"BUSY", "SYNCING"}
        /\ Label(p, known) \in Terminal => Label(p, known) \in {p.display, known}
  BY DEF Label, Page, Status, Terminal, None, Cancellable

LEMMA Rendered ==
  ASSUME screen \in Screen, NEW p \in Page, Render(p)
  PROVE /\ screen' \in Screen /\ screen'.known = screen.known /\ screen'.result = screen.result
        /\ screen'.label \in Terminal => screen'.label \in {p.display, screen.known}
  <1>1. screen.known \in Status \union {None} BY DEF Screen
  <1>2. \A x \in Status \union {"BUSY", "SYNCING"} :
          LET q == [screen EXCEPT !.label = x]
          IN q \in Screen /\ q.label = x /\ q.known = screen.known /\ q.result = screen.result
    BY DEF Screen
  <1>. QED BY <1>1, <1>2, LabelValues, Zenon DEF Render

-----------------------------------------------------------------------------
(* The task: the log only grows and a terminal status is never left *)

Grows == /\ Len(log') >= Len(log)
         /\ \A n \in 1..Len(log) : log'[n] = log[n]
         /\ status \in Terminal => status' = status

LEMMA ServerStep ==
  ASSUME TypeOK, \/ StartPlanning \/ CompleteGoal \/ ActivatePlan \/ CancelElsewhere \/ CloseTask
                 \/ AnswerCancel \/ UNCHANGED serverVars
  PROVE Grows /\ status' \in Status /\ log' \in Seq(EventType)
  <1>. USE DEF TypeOK, Grows, Status, Terminal, Cancellable
  <1>1. CASE StartPlanning BY <1>1 DEF StartPlanning
  <1>2. CASE CompleteGoal
    <2>1. CASE log' = Append(log, "GOAL_UNDERSTANDING_COMPLETED") /\ UNCHANGED status
      BY <2>1 DEF EventType
    <2>2. CASE /\ log' = log \o <<"GOAL_UNDERSTANDING_COMPLETED", "USER_INPUT_REQUESTED">>
               /\ status' = "WAITING_USER_INPUT"
      BY <1>2, <2>2 DEF CompleteGoal, EventType
    <2>. QED BY <1>2, <2>1, <2>2 DEF CompleteGoal
  <1>3. CASE ActivatePlan BY <1>3 DEF ActivatePlan, EventType
  <1>4. CASE CancelElsewhere BY <1>4 DEF CancelElsewhere, EventType
  <1>5. CASE CloseTask BY <1>5 DEF CloseTask
  <1>6. CASE AnswerCancel
    <2>1. CASE status \in Cancellable BY <1>6, <2>1 DEF AnswerCancel, EventType
    <2>2. CASE status \notin Cancellable BY <1>6, <2>2 DEF AnswerCancel, serverVars
    <2>. QED BY <2>1, <2>2
  <1>7. CASE UNCHANGED serverVars BY <1>7 DEF serverVars
  <1>. QED BY <1>1, <1>2, <1>3, <1>4, <1>5, <1>6, <1>7

LEMMA TaskGrows ==
  ASSUME TypeOK, [Next]_vars
  PROVE Grows /\ status' \in Status /\ log' \in Seq(EventType)
  <1>1. CASE WriterStep BY <1>1, ServerStep DEF WriterStep
  <1>2. CASE AnswerCancel BY <1>2, ServerStep
  <1>3. CASE UNCHANGED serverVars BY <1>3, ServerStep
  <1>4. CASE \/ OpenStream \/ ReadRow \/ ListEvents \/ DeliverFrame \/ CloseStream \/ DropStream
             \/ AnswerSnapshot \/ LoseSnapshot \/ ApplySnapshot \/ ShowResult \/ LoseResult
             \/ ClickCancel \/ ShowCancel \/ LoseCancel \/ Refresh
    BY <1>3, <1>4 DEF OpenStream, ReadRow, ListEvents, DeliverFrame, CloseStream, DropStream,
         AnswerSnapshot, LoseSnapshot, ApplySnapshot, ShowResult, LoseResult,
         ClickCancel, ShowCancel, LoseCancel, Refresh
  <1>5. CASE UNCHANGED vars BY <1>3, <1>5 DEF vars
  <1>. QED BY <1>1, <1>2, <1>4, <1>5 DEF Next

-----------------------------------------------------------------------------
(* Frames and answers stay true while the task moves on *)

LEMMA FramesStayTrue ==
  ASSUME TypeOK, Grows, NEW f \in link.frames, FrameTrue(f)
  PROVE FrameTrue(f)'
  <1>1. f \in Frame BY DEF TypeOK, Link
  <1>2. CASE f.type = "terminal"
    <2>1. f.display \in Terminal BY <1>1, <1>2, StatusFacts DEF Frame
    <2>. QED BY <1>2, <2>1 DEF FrameTrue, Grows
  <1>3. CASE f.type # "terminal"
    <2>1. Len(log) \in Nat /\ Len(log') >= Len(log) BY DEF TypeOK, Grows
    <2>2. f.sequence \in 1..Len(log) BY <1>3 DEF FrameTrue
    <2>. QED BY <1>3, <2>1, <2>2 DEF FrameTrue, Grows
  <1>. QED BY <1>2, <1>3

LEMMA AnswersStayTrue ==
  ASSUME TypeOK, Grows, log' \in Seq(EventType), NEW s \in Snapshot, SnapshotTrue(s)
  PROVE SnapshotTrue(s)'
  BY DEF SnapshotTrue, Grows, TypeOK, Snapshot

\* The knowledge a page holds stays covered as long as the page does not change.
LEMMA StillPage ==
  ASSUME IInv, Grows, log' \in Seq(EventType), UNCHANGED <<page, saved, seen, link, screen>>
  PROVE PageInv' /\ NothingSkipped' /\ TerminalIsTrue'
  <1>1. Len(log) \in Nat /\ Len(log') \in Nat BY DEF IInv, TypeOK
  <1>2. page.cursor \in Nat /\ saved \in Nat /\ link.cursor \in Nat BY DEF IInv, TypeOK, Page, Link
  <1>3. PageInv' BY <1>1, <1>2 DEF IInv, PageInv, Grows
  <1>4. NothingSkipped'
    <2>1. Max({page.cursor, saved}) \in Nat /\ Max({page.cursor, saved}) <= Len(log)
      BY <1>1, <1>2, MaxOfTwo DEF IInv, PageInv
    <2>. QED BY <1>1, <2>1 DEF IInv, NothingSkipped, Grows
  <1>5. TerminalIsTrue' BY DEF IInv, TerminalIsTrue, Grows, TypeOK, Page
  <1>. QED BY <1>3, <1>4, <1>5

-----------------------------------------------------------------------------
(* The invariant, action by action *)

\* A step that leaves the task and what the page knows, and at most renders it again.
OnlyRenders == /\ UNCHANGED <<status, log, page, saved, seen>>
               /\ Render(page) \/ UNCHANGED screen

LEMMA RenderStep ==
  ASSUME IInv, OnlyRenders
  PROVE /\ screen' \in Screen /\ screen'.known = screen.known
        /\ NothingSkipped' /\ TerminalIsTrue'
  <1>1. page \in Page /\ screen \in Screen BY DEF IInv, TypeOK
  <1>2. /\ screen' \in Screen /\ screen'.known = screen.known
        /\ screen'.label \in Terminal =>
             screen'.label \in {page.display, screen.known, screen.label}
    BY <1>1, Rendered DEF OnlyRenders
  <1>3. NothingSkipped' BY DEF IInv, NothingSkipped, OnlyRenders
  <1>4. TerminalIsTrue'
    BY <1>1, <1>2, StatusFacts DEF IInv, TerminalIsTrue, PageInv, OnlyRenders, Page, None
  <1>. QED BY <1>2, <1>3, <1>4

LEMMA WriterInv ==
  ASSUME IInv, Grows, status' \in Status, log' \in Seq(EventType), WriterStep \/ AnswerCancel
  PROVE IInv'
  <1>1. /\ UNCHANGED <<page, screen, saved, seen, snaps, fetching, link, faults, refreshes>>
        /\ \/ UNCHANGED cancelling
           \/ cancelling' \in {"CANCEL_REQUESTED", "refused"}
           \/ cancelling' = status /\ UNCHANGED status
    BY DEF WriterStep, AnswerCancel, pageVars, callVars, serverVars
  <1>2. TypeOK' BY <1>1 DEF IInv, TypeOK, Status, Cancellable, Terminal
  <1>3. InFlightTrue'
    <2>1. \A f \in link'.frames : FrameTrue(f)'
      BY <1>1, FramesStayTrue DEF IInv, InFlightTrue
    <2>2. \A s \in snaps'.answers : SnapshotTrue(s)'
      BY <1>1, AnswersStayTrue DEF IInv, InFlightTrue, TypeOK
    <2>3. cancelling' \in Terminal => cancelling' = status'
      BY <1>1 DEF IInv, InFlightTrue, Grows, Terminal
    <2>. QED BY <2>1, <2>2, <2>3 DEF InFlightTrue
  <1>. QED BY <1>1, <1>2, <1>3, StillPage DEF IInv

\* A connection step replaces the frames by true ones.
LEMMA LinkInv ==
  ASSUME IInv, OnlyRenders, UNCHANGED <<snaps, fetching, cancelling, refreshes>>,
         faults' \in 0..MaxFaults, link' \in Link, link'.cursor <= Len(log),
         \A f \in link'.frames : FrameTrue(f)
  PROVE IInv'
  <1>1. TypeOK' BY RenderStep DEF IInv, TypeOK, OnlyRenders
  <1>2. InFlightTrue' BY DEF IInv, InFlightTrue, OnlyRenders, FrameTrue, SnapshotTrue
  <1>3. PageInv' BY RenderStep DEF IInv, PageInv, OnlyRenders
  <1>. QED BY <1>1, <1>2, <1>3, RenderStep DEF IInv

LEMMA WaitingOK == Waiting \in Link /\ Waiting.cursor = 0 /\ Waiting.frames = {}
  BY DEF Waiting, Link

LEMMA ConnectionInv ==
  ASSUME IInv, OpenStream \/ ReadRow \/ ListEvents \/ CloseStream \/ DropStream
  PROVE IInv'
  <1>. USE DEF serverVars, pageVars, callVars
  <1>1. /\ link \in Link /\ page.cursor \in Nat /\ page.cursor <= Len(log) /\ Len(log) \in Nat
        /\ link.cursor <= Len(log) /\ \A f \in link.frames : FrameTrue(f)
        /\ faults \in 0..MaxFaults
    BY DEF IInv, TypeOK, PageInv, InFlightTrue, Page
  <1>2. CASE OpenStream
    <2>1. link' \in Link /\ link'.cursor = page.cursor /\ link'.frames = {}
      BY <1>1, <1>2 DEF OpenStream, Link
    <2>. QED BY <1>1, <1>2, <2>1, LinkInv DEF OpenStream, OnlyRenders
  <1>3. CASE ReadRow
    <2>1. CASE status \in Terminal
      <3>1. TerminalFrames \subseteq Frame /\ \A f \in TerminalFrames : FrameTrue(f)
        BY <2>1 DEF TerminalFrames, Frame, FrameTrue
      <3>2. link' = [link EXCEPT !.pc = "open", !.frames = TerminalFrames] /\ Render(page)
        BY <1>3, <2>1, Zenon DEF ReadRow
      <3>3. link' \in Link /\ link'.cursor = link.cursor /\ link'.frames = TerminalFrames
        BY <1>1, <3>1, <3>2 DEF Link
      <3>. QED BY <1>1, <1>3, <3>1, <3>2, <3>3, LinkInv DEF ReadRow, OnlyRenders
    <2>2. CASE status \notin Terminal /\ link.cursor > Len(log)
      BY <1>1, <1>3, <2>2, WaitingOK, LinkInv DEF ReadRow, OnlyRenders
    <2>3. CASE status \notin Terminal /\ ~ (link.cursor > Len(log))
      <3>1. link' = [link EXCEPT !.pc = "listing"] /\ UNCHANGED screen
        BY <1>3, <2>3, Zenon DEF ReadRow
      <3>2. link' \in Link /\ link'.cursor = link.cursor /\ link'.frames = link.frames
        BY <1>1, <3>1 DEF Link
      <3>. QED BY <1>1, <1>3, <3>1, <3>2, LinkInv DEF ReadRow, OnlyRenders
    <2>. QED BY <2>1, <2>2, <2>3
  <1>4. CASE ListEvents
    <2>1. Replay(link.cursor) \subseteq Frame /\ \A f \in Replay(link.cursor) : FrameTrue(f)
      <3>1. link.cursor \in Nat /\ log \in Seq(EventType) BY DEF IInv, TypeOK, Link
      <3>2. SUFFICES ASSUME NEW n \in (link.cursor + 1)..Len(log), log[n] \in Streamable
                     PROVE LET f == [sequence |-> n, type |-> log[n], display |-> None]
                           IN f \in Frame /\ FrameTrue(f)
        BY DEF Replay
      <3>3. n \in 1..Len(log) /\ n \in Nat BY <1>1, <3>1
      <3>4. log[n] \in EventType /\ log[n] # "terminal" BY <3>1, <3>3, StatusFacts
      <3>. QED BY <3>2, <3>3, <3>4 DEF Frame, FrameTrue
    <2>2. link' = [link EXCEPT !.pc = "open", !.frames = Replay(link.cursor)] /\ Render(page)
      BY <1>4, Zenon DEF ListEvents
    <2>3. link' \in Link /\ link'.cursor = link.cursor /\ link'.frames = Replay(link.cursor)
      BY <1>1, <2>1, <2>2 DEF Link
    <2>. QED BY <1>1, <1>4, <2>1, <2>2, <2>3, LinkInv DEF ListEvents, OnlyRenders
  <1>5. CASE CloseStream BY <1>1, <1>5, WaitingOK, LinkInv DEF CloseStream, OnlyRenders
  <1>6. CASE DropStream
    <2>1. faults' \in 0..MaxFaults BY <1>6, EventStreamAssumption DEF DropStream, IInv, TypeOK
    <2>. QED BY <1>1, <1>6, <2>1, WaitingOK, LinkInv DEF DropStream, OnlyRenders
  <1>. QED BY <1>2, <1>3, <1>4, <1>5, <1>6

\* What a page may become: it stays behind the log, what it passes over has been
\* seen, and a display is the task's end.
PageMoves == /\ page' \in Page /\ saved' \in {saved, page'.last}
             /\ seen \subseteq seen' /\ seen' \subseteq Nat
             /\ page'.last <= page'.cursor /\ page'.cursor <= Len(log)
             /\ \A n \in 1..page'.cursor : log[n] \in Streamable => n \in seen'
             /\ page'.display # None => page'.display = status
             /\ screen' \in Screen
             /\ screen'.known \in Terminal => screen'.known = status
             /\ screen'.label \in Terminal => screen'.label = status

LEMMA SeenSoFar ==
  ASSUME IInv
  PROVE /\ page.cursor \in Nat /\ saved \in Nat /\ page.last \in Nat /\ Len(log) \in Nat
        /\ \A n \in 1..page.cursor : log[n] \in Streamable => n \in seen
        /\ \A n \in 1..saved : log[n] \in Streamable => n \in seen
  BY MaxOfTwo DEF IInv, TypeOK, Page, NothingSkipped

LEMMA PageInvStep ==
  ASSUME IInv, PageMoves, UNCHANGED <<status, log, faults, refreshes>>,
         link' \in Link, link'.cursor = link.cursor, link'.frames \subseteq link.frames,
         snaps' \in [asked : Nat, answers : SUBSET Snapshot], snaps'.answers \subseteq snaps.answers,
         fetching' \in BOOLEAN, UNCHANGED cancelling
  PROVE IInv'
  <1>1. TypeOK' BY DEF IInv, TypeOK, PageMoves, Page
  <1>2. InFlightTrue' BY DEF IInv, InFlightTrue, FrameTrue, SnapshotTrue
  <1>3. page'.last \in Nat /\ page'.cursor \in Nat BY DEF PageMoves, Page
  <1>4. PageInv' BY <1>3, SeenSoFar DEF IInv, PageInv, PageMoves
  <1>5. NothingSkipped'
    <2>1. \A n \in 1..saved' : log[n] \in Streamable => n \in seen'
      BY <1>3, SeenSoFar DEF PageMoves
    <2>2. saved' \in Nat BY <1>3, SeenSoFar DEF PageMoves
    <2>3. CASE Max({page'.cursor, saved'}) = saved'
      BY <2>1, <2>3 DEF NothingSkipped
    <2>4. CASE Max({page'.cursor, saved'}) = page'.cursor
      BY <2>4 DEF NothingSkipped, PageMoves
    <2>. QED BY <1>3, <2>2, <2>3, <2>4, MaxOfTwo
  <1>6. TerminalIsTrue' BY DEF TerminalIsTrue, PageMoves
  <1>. QED BY <1>1, <1>2, <1>4, <1>5, <1>6 DEF IInv

LEMMA FrameInv ==
  ASSUME IInv, DeliverFrame
  PROVE IInv'
  <1>1. PICK f \in link.frames :
          /\ link' = [link EXCEPT !.frames = @ \ {f}]
          /\ IgnoreFrame(f) \/ GapFrame(f) \/ NextFrame(f) \/ TerminalFrame(f)
    BY DEF DeliverFrame
  <1>2. UNCHANGED <<status, log, faults, refreshes, cancelling>>
    BY DEF DeliverFrame, serverVars
  <1>3. /\ link \in Link /\ page \in Page /\ screen \in Screen /\ fetching \in BOOLEAN
        /\ snaps \in [asked : Nat, answers : SUBSET Snapshot] /\ seen \subseteq Nat
    BY DEF IInv, TypeOK
  <1>4. f \in Frame /\ FrameTrue(f) BY <1>3 DEF Link, IInv, InFlightTrue
  <1>5. link' \in Link /\ link'.cursor = link.cursor /\ link'.frames \subseteq link.frames
    BY <1>1, <1>3 DEF Link
  <1>6. /\ page.last <= page.cursor /\ page.cursor <= Len(log)
        /\ page.display # None => page.display = status
        /\ screen.known \in Terminal => screen.known = status
        /\ screen.label \in Terminal => screen.label = status
    BY DEF IInv, PageInv, TerminalIsTrue
  <1>7. CASE IgnoreFrame(f)
    <2>1. PageMoves BY <1>3, <1>6, <1>7, SeenSoFar DEF IgnoreFrame, PageMoves, pageVars
    <2>. QED BY <1>2, <1>3, <1>5, <1>7, <2>1, PageInvStep DEF IgnoreFrame
  <1>8. CASE GapFrame(f)
    <2>1. /\ page' = GapSeen(f) /\ Render(page') /\ UNCHANGED <<saved, seen, fetching>>
          /\ snaps' = [snaps EXCEPT !.asked = @ + 1]
      BY <1>8 DEF GapFrame
    <2>2. /\ page' \in Page /\ page'.last = page.last /\ page'.cursor = page.cursor
          /\ page'.display = page.display
      BY <1>3, <2>1, GapSeenFields, Zenon
    <2>3. /\ screen' \in Screen /\ screen'.known = screen.known
          /\ screen'.label \in Terminal => screen'.label \in {page.display, screen.known}
      BY <1>3, <2>1, <2>2, Rendered
    <2>4. snaps' \in [asked : Nat, answers : SUBSET Snapshot] /\ snaps'.answers = snaps.answers
      BY <1>3, <2>1
    <2>5. screen'.label \in Terminal => screen'.label = status
      BY <1>6, <2>3, StatusFacts DEF None, Terminal
    <2>6. PageMoves BY <1>3, <1>6, <2>1, <2>2, <2>3, <2>5, SeenSoFar DEF PageMoves
    <2>. QED BY <1>2, <1>3, <1>5, <2>1, <2>4, <2>6, PageInvStep
  <1>9. CASE NextFrame(f)
    <2>1. /\ f.type # "terminal" /\ f.sequence = page.last + 1
          /\ page' = EventSeen(f) /\ Persist(page') /\ seen' = seen \union {f.sequence}
          /\ UNCHANGED <<snaps, fetching>>
      BY <1>9 DEF NextFrame
    <2>2. f.type \in EventType /\ f.sequence \in 1..Len(log)
      BY <1>4, <2>1 DEF FrameTrue, Streamable
    <2>3. /\ page' \in Page /\ page'.last = f.sequence /\ page'.cursor = f.sequence
          /\ page'.display = None
      BY <1>3, <1>4, <2>1, <2>2, EventSeenFields, Zenon
    <2>4. PICK known \in {PayloadStatus(f.type), screen.known} :
            screen' = [screen EXCEPT !.known = known, !.label = Label(page', known)]
      BY <1>9 DEF NextFrame
    <2>5. known \in Status \union {None} /\ (known \in Terminal => known = status)
      <3>1. PayloadStatus(f.type) \in {"QUEUED", "CANCEL_REQUESTED", None} BY <2>2, PayloadIsOpen
      <3>2. screen.known \in Status \union {None} BY <1>3 DEF Screen
      <3>3. CASE known = screen.known BY <1>6, <3>2, <3>3
      <3>4. CASE known = PayloadStatus(f.type)
        BY <3>1, <3>4 DEF Status, Cancellable, Terminal, None
      <3>. QED BY <2>4, <3>3, <3>4
    <2>6. /\ Label(page', known) \in Status \union {"BUSY", "SYNCING"}
          /\ Label(page', known) \in Terminal => Label(page', known) \in {None, known}
      BY <2>3, <2>5, LabelValues
    <2>7. \A l \in Status \union {"BUSY", "SYNCING"}, k \in Status \union {None} :
            LET q == [screen EXCEPT !.known = k, !.label = l]
            IN q \in Screen /\ q.known = k /\ q.label = l
      BY <1>3 DEF Screen
    <2>8. screen' \in Screen /\ screen'.known = known /\ screen'.label = Label(page', known)
      BY <2>4, <2>5, <2>6, <2>7, Zenon
    <2>9. screen'.label \in Terminal => screen'.label = status
      BY <2>5, <2>6, <2>8, StatusFacts DEF None, Terminal
    <2>10. \A n \in 1..page'.cursor : log[n] \in Streamable => n \in seen'
      <3>. SUFFICES ASSUME NEW n \in 1..f.sequence, log[n] \in Streamable, n # f.sequence
                    PROVE n \in seen
        BY <2>1, <2>3
      <3>1. n \in 1..page.cursor BY <1>6, <2>1, SeenSoFar
      <3>. QED BY <3>1, SeenSoFar
    <2>11. saved' \in {saved, page'.last} BY <2>1 DEF Persist
    <2>12. /\ seen \subseteq seen' /\ seen' \subseteq Nat
           /\ page'.last <= page'.cursor /\ page'.cursor <= Len(log)
      <3>1. Len(log) \in Nat BY SeenSoFar
      <3>2. f.sequence \in Nat /\ f.sequence <= Len(log) BY <2>2, <3>1
      <3>3. seen' = seen \union {f.sequence} /\ seen \subseteq Nat BY <1>3, <2>1
      <3>4. page'.last = f.sequence /\ page'.cursor = f.sequence BY <2>3
      <3>5. seen \subseteq seen' /\ seen' \subseteq Nat BY ONLY <3>2, <3>3
      <3>. QED BY ONLY <3>1, <3>2, <3>4, <3>5
    <2>13. screen'.known \in Terminal => screen'.known = status BY <2>5, <2>8, Zenon
    <2>14. PageMoves
      BY <2>3, <2>8, <2>9, <2>10, <2>11, <2>12, <2>13, Zenon DEF PageMoves
    <2>. QED BY <1>2, <1>3, <1>5, <2>1, <2>14, PageInvStep
  <1>10. CASE TerminalFrame(f)
    <2>1. f.type = "terminal" /\ f.display \in Terminal /\ f.display = status
      BY <1>4, <1>10, StatusFacts DEF TerminalFrame, Frame, FrameTrue
    <2>2. fetching' \in BOOLEAN /\ UNCHANGED <<seen, snaps>> BY <1>10 DEF TerminalFrame
    <2>3. CASE page.display = f.display
      <3>1. UNCHANGED <<page, screen, saved>> BY <1>10, <2>3 DEF TerminalFrame
      <3>2. PageMoves BY <1>3, <1>6, <2>2, <3>1, SeenSoFar DEF PageMoves
      <3>. QED BY <1>2, <1>3, <1>5, <2>2, <3>2, PageInvStep
    <2>4. CASE page.display # f.display
      <3>1. page' = WithTerminal(page, f.display) /\ Persist(page') /\ Render(page')
        BY <1>10, <2>4 DEF TerminalFrame
      <3>2. /\ page' \in Page /\ page'.last = page.last /\ page'.cursor = page.cursor
            /\ page'.display = status
        BY <1>3, <2>1, <3>1, TerminalFields, Zenon
      <3>3. /\ screen' \in Screen /\ screen'.known = screen.known
            /\ screen'.label \in Terminal => screen'.label \in {status, screen.known}
        BY <1>3, <3>1, <3>2, Rendered, Zenon
      <3>4. saved' \in {saved, page'.last} BY <3>1 DEF Persist
      <3>5. PageMoves BY <1>3, <1>6, <2>2, <3>2, <3>3, <3>4, SeenSoFar DEF PageMoves
      <3>. QED BY <1>2, <1>3, <1>5, <2>2, <3>5, PageInvStep
    <2>. QED BY <2>3, <2>4
  <1>. QED BY <1>1, <1>7, <1>8, <1>9, <1>10

\* The requests under way besides the connection.
LEMMA AnswerSnapshotInv ==
  ASSUME IInv, AnswerSnapshot \/ LoseSnapshot
  PROVE IInv'
  <1>. DEFINE s == [status |-> status, sequence |-> Len(log)]
  <1>1. /\ UNCHANGED <<status, log, page, screen, saved, seen, link, fetching, cancelling, refreshes>>
        /\ faults' \in 0..MaxFaults
    BY EventStreamAssumption DEF AnswerSnapshot, LoseSnapshot, serverVars, pageVars, IInv, TypeOK
  <1>2. s \in Snapshot /\ SnapshotTrue(s) BY DEF IInv, TypeOK, Snapshot, SnapshotTrue
  <1>3. /\ snaps' \in [asked : Nat, answers : SUBSET Snapshot]
        /\ snaps'.answers \subseteq snaps.answers \union {s}
    <2>1. snaps \in [asked : Nat, answers : SUBSET Snapshot] BY DEF IInv, TypeOK
    <2>2. CASE AnswerSnapshot BY <1>2, <2>1, <2>2 DEF AnswerSnapshot
    <2>3. CASE LoseSnapshot BY <2>1, <2>3 DEF LoseSnapshot
    <2>. QED BY <2>2, <2>3
  <1>4. TypeOK' BY <1>1, <1>3 DEF IInv, TypeOK
  <1>5. InFlightTrue'
    <2>1. \A x \in snaps'.answers : SnapshotTrue(x) BY <1>2, <1>3 DEF IInv, InFlightTrue
    <2>. QED BY <1>1, <2>1 DEF IInv, InFlightTrue, FrameTrue, SnapshotTrue
  <1>. QED BY <1>1, <1>4, <1>5 DEF IInv, PageInv, NothingSkipped, TerminalIsTrue

LEMMA ApplySnapshotInv ==
  ASSUME IInv, ApplySnapshot
  PROVE IInv'
  <1>1. PICK s \in snaps.answers :
          /\ snaps' = [snaps EXCEPT !.answers = @ \ {s}]
          /\ page' = AfterSnapshot(s) /\ seen' = seen \union 1..s.sequence
          /\ fetching' = (fetching \/ s.status \in Terminal)
    BY DEF ApplySnapshot
  <1>2. /\ Persist(page') /\ Render(page')
        /\ UNCHANGED <<status, log, link, cancelling, faults, refreshes>>
    BY DEF ApplySnapshot, serverVars
  <1>3. /\ page \in Page /\ screen \in Screen /\ fetching \in BOOLEAN /\ seen \subseteq Nat
        /\ snaps \in [asked : Nat, answers : SUBSET Snapshot] /\ link \in Link
    BY DEF IInv, TypeOK
  <1>4. s \in Snapshot /\ SnapshotTrue(s) BY <1>3 DEF IInv, InFlightTrue
  <1>5. s.sequence \in Nat /\ s.sequence <= Len(log) BY <1>4 DEF Snapshot, SnapshotTrue
  <1>6. /\ page' \in Page
        /\ page'.last = Max({page.last, s.sequence})
        /\ page'.cursor = Max({page.cursor, s.sequence})
        /\ page'.display = IF s.status \in Terminal THEN s.status ELSE page.display
    BY <1>1, <1>3, <1>4, AfterSnapshotFields, Zenon
  <1>7. /\ page.last <= page.cursor /\ page.cursor <= Len(log)
        /\ page.last \in Nat /\ page.cursor \in Nat /\ Len(log) \in Nat
    BY SeenSoFar DEF IInv, PageInv
  <1>8. /\ page'.last <= page'.cursor /\ page'.cursor <= Len(log)
        /\ page'.cursor \in {page.cursor, s.sequence}
    BY <1>5, <1>6, <1>7, MaxOfTwo
  <1>9. page'.display # None => page'.display = status
    BY <1>4, <1>6 DEF IInv, TerminalIsTrue, SnapshotTrue
  <1>10. \A n \in 1..page'.cursor : log[n] \in Streamable => n \in seen'
    BY <1>1, <1>8, SeenSoFar
  <1>11. screen.known \in Terminal => screen.known = status BY DEF IInv, PageInv
  <1>12. /\ screen' \in Screen /\ screen'.known = screen.known
         /\ screen'.label \in Terminal => screen'.label \in {page'.display, screen.known}
    BY <1>2, <1>3, <1>6, Rendered, Zenon
  <1>13. screen'.label \in Terminal => screen'.label = status
    BY <1>9, <1>11, <1>12, StatusFacts
  <1>14. saved' \in {saved, page'.last} BY <1>2 DEF Persist
  <1>15. seen \subseteq seen' /\ seen' \subseteq Nat BY <1>1, <1>3, <1>5
  <1>16. PageMoves
    BY <1>6, <1>8, <1>9, <1>10, <1>11, <1>12, <1>13, <1>14, <1>15, Zenon DEF PageMoves
  <1>17. /\ snaps' \in [asked : Nat, answers : SUBSET Snapshot]
         /\ snaps'.answers \subseteq snaps.answers
    BY <1>1, <1>3
  <1>18. fetching' \in BOOLEAN BY <1>1, <1>3, Zenon
  <1>. QED BY <1>2, <1>3, <1>16, <1>17, <1>18, PageInvStep

LEMMA ResultInv ==
  ASSUME IInv, ShowResult \/ LoseResult
  PROVE IInv'
  <1>1. /\ UNCHANGED <<status, log, page, saved, seen, snaps, link, cancelling, refreshes>>
        /\ fetching' \in BOOLEAN
    BY DEF ShowResult, LoseResult, serverVars, pageVars
  <1>2. faults' \in 0..MaxFaults
    BY EventStreamAssumption DEF ShowResult, LoseResult, IInv, TypeOK
  <1>3. /\ screen' \in Screen /\ screen'.known = screen.known
        /\ screen'.label \in Terminal => screen'.label \in {page.display, screen.known, screen.label}
    <2>1. page \in Page /\ screen \in Screen BY DEF IInv, TypeOK
    <2>2. screen.known \in Status \union {None} BY <2>1 DEF Screen
    <2>3. CASE LoseResult BY <2>1, <2>3 DEF LoseResult, pageVars
    <2>4. CASE ShowResult
      <3>1. \A l \in Status \union {"BUSY", "SYNCING"} :
              LET q == [screen EXCEPT !.result = TRUE, !.label = l]
              IN q \in Screen /\ q.known = screen.known /\ q.label = l
        BY <2>1 DEF Screen
      <3>2. screen' = [screen EXCEPT !.result = TRUE, !.label = Label(page, screen.known)]
        BY <2>4 DEF ShowResult
      <3>3. /\ Label(page, screen.known) \in Status \union {"BUSY", "SYNCING"}
            /\ Label(page, screen.known) \in Terminal =>
                 Label(page, screen.known) \in {page.display, screen.known}
        BY <2>1, <2>2, LabelValues
      <3>. QED BY <3>1, <3>2, <3>3, Zenon
    <2>. QED BY <2>3, <2>4
  <1>4. TerminalIsTrue'
    BY <1>1, <1>3, StatusFacts DEF IInv, TerminalIsTrue, PageInv
  <1>5. TypeOK' BY <1>1, <1>2, <1>3 DEF IInv, TypeOK
  <1>. QED BY <1>1, <1>3, <1>4, <1>5
       DEF IInv, InFlightTrue, FrameTrue, SnapshotTrue, PageInv, NothingSkipped

LEMMA CancelInv ==
  ASSUME IInv, ClickCancel \/ ShowCancel \/ LoseCancel
  PROVE IInv'
  <1>1. /\ UNCHANGED <<status, log, page, saved, seen, snaps, fetching, link, refreshes>>
        /\ cancelling' \in {"idle", "asked"}
    BY DEF ClickCancel, ShowCancel, LoseCancel, serverVars, pageVars
  <1>2. faults' \in 0..MaxFaults
    BY EventStreamAssumption DEF ClickCancel, ShowCancel, LoseCancel, IInv, TypeOK
  <1>3. /\ screen' \in Screen
        /\ \/ UNCHANGED screen
           \/ screen'.known = cancelling /\ screen'.label = cancelling
    <2>1. screen \in Screen BY DEF IInv, TypeOK
    <2>2. CASE UNCHANGED screen BY <2>1, <2>2
    <2>3. CASE ShowCancel /\ cancelling # "refused"
      <3>1. cancelling \in Status BY <2>3 DEF IInv, TypeOK, ShowCancel
      <3>2. screen' = [screen EXCEPT !.known = cancelling, !.label = cancelling]
        BY <2>3 DEF ShowCancel
      <3>. QED BY <2>1, <3>1, <3>2 DEF Screen
    <2>. QED BY <2>2, <2>3 DEF ClickCancel, ShowCancel, LoseCancel, pageVars
  <1>4. cancelling \in Terminal => cancelling = status BY DEF IInv, InFlightTrue
  <1>5. TerminalIsTrue' /\ PageInv'
    BY <1>1, <1>3, <1>4 DEF IInv, TerminalIsTrue, PageInv
  <1>6. TypeOK' BY <1>1, <1>2, <1>3 DEF IInv, TypeOK
  <1>. QED BY <1>1, <1>5, <1>6
       DEF IInv, InFlightTrue, FrameTrue, SnapshotTrue, NothingSkipped, Terminal

LEMMA FreshPage ==
  ASSUME NEW c \in Nat
  PROVE /\ NewPage(c) \in Page /\ NewPage(c).last = 0 /\ NewPage(c).cursor = c
        /\ NewPage(c).display = None
        /\ NewScreen \in Screen /\ NewScreen.known = None /\ NewScreen.label = "BUSY"
        /\ NoSnaps \in [asked : Nat, answers : SUBSET Snapshot] /\ NoSnaps.answers = {}
  BY DEF NewPage, Page, NewScreen, Screen, NoSnaps, None

LEMMA RefreshInv ==
  ASSUME IInv, Refresh
  PROVE IInv'
  <1>1. /\ page' = NewPage(saved) /\ screen' = NewScreen /\ link' = Waiting
        /\ snaps' = NoSnaps /\ fetching' = FALSE /\ cancelling' = "idle"
        /\ UNCHANGED <<status, log, saved, seen, faults>>
    BY DEF Refresh, serverVars
  <1>2. saved \in Nat /\ saved <= Len(log) /\ Len(log) \in Nat BY DEF IInv, TypeOK, PageInv
  <1>3. TypeOK'
    <2>1. refreshes' \in 0..MaxFaults BY EventStreamAssumption DEF Refresh, IInv, TypeOK
    <2>. QED BY <1>1, <1>2, <2>1, FreshPage, WaitingOK DEF IInv, TypeOK
  <1>4. InFlightTrue' BY <1>1, <1>2, FreshPage, WaitingOK DEF InFlightTrue, Terminal
  <1>5. PageInv' BY <1>1, <1>2, FreshPage, WaitingOK, StatusFacts DEF PageInv
  <1>6. NothingSkipped'
    <2>1. Max({saved, saved}) = saved BY <1>2, MaxOfTwo
    <2>. QED BY <1>1, <1>2, <2>1, FreshPage, SeenSoFar DEF NothingSkipped
  <1>7. TerminalIsTrue' BY <1>1, <1>2, FreshPage DEF TerminalIsTrue, Terminal
  <1>. QED BY <1>3, <1>4, <1>5, <1>6, <1>7 DEF IInv

-----------------------------------------------------------------------------
(* The theorems *)

LEMMA InvInit == Init => IInv
  <1>. SUFFICES ASSUME Init PROVE IInv OBVIOUS
  <1>1. Len(log) = 1 /\ log \in Seq(EventType) BY DEF Init, EventType
  <1>2. TypeOK
    <2>1. status \in Status BY DEF Init, Status, Cancellable
    <2>2. /\ link \in Link /\ page \in Page /\ screen \in Screen
          /\ snaps \in [asked : Nat, answers : SUBSET Snapshot]
      BY FreshPage, WaitingOK DEF Init
    <2>3. faults \in 0..MaxFaults /\ refreshes \in 0..MaxFaults
      BY EventStreamAssumption DEF Init
    <2>4. /\ saved \in Nat /\ fetching \in BOOLEAN /\ seen \subseteq Nat
          /\ cancelling \in {"idle", "asked", "refused"} \union Status
      BY DEF Init
    <2>. QED BY <1>1, <2>1, <2>2, <2>3, <2>4 DEF TypeOK
  <1>3. InFlightTrue BY FreshPage, WaitingOK DEF Init, InFlightTrue, Terminal
  <1>4. PageInv BY <1>1, FreshPage, WaitingOK, StatusFacts DEF Init, PageInv
  <1>5. NothingSkipped
    <2>1. page.cursor = 0 /\ saved = 0 BY FreshPage DEF Init
    <2>2. Max({page.cursor, saved}) = 0 BY <2>1, MaxOfTwo
    <2>. QED BY <2>2 DEF NothingSkipped
  <1>6. TerminalIsTrue BY FreshPage DEF Init, TerminalIsTrue, Terminal
  <1>. QED BY <1>2, <1>3, <1>4, <1>5, <1>6 DEF IInv

LEMMA InvNext == IInv /\ [Next]_vars => IInv'
  <1>. SUFFICES ASSUME IInv, [Next]_vars PROVE IInv' OBVIOUS
  <1>1. Grows /\ status' \in Status /\ log' \in Seq(EventType) BY TaskGrows DEF IInv
  <1>2. CASE WriterStep \/ AnswerCancel BY <1>1, <1>2, WriterInv
  <1>3. CASE OpenStream \/ ReadRow \/ ListEvents \/ CloseStream \/ DropStream
    BY <1>3, ConnectionInv
  <1>4. CASE DeliverFrame BY <1>4, FrameInv
  <1>5. CASE AnswerSnapshot \/ LoseSnapshot BY <1>5, AnswerSnapshotInv
  <1>6. CASE ApplySnapshot BY <1>6, ApplySnapshotInv
  <1>7. CASE ShowResult \/ LoseResult BY <1>7, ResultInv
  <1>8. CASE ClickCancel \/ ShowCancel \/ LoseCancel BY <1>8, CancelInv
  <1>9. CASE Refresh BY <1>9, RefreshInv
  <1>10. CASE UNCHANGED vars
    <2>1. UNCHANGED <<status, log, link, page, screen, saved, snaps, fetching, cancelling, seen,
                      faults, refreshes>>
      BY <1>10 DEF vars, serverVars, pageVars, callVars
    <2>2. TypeOK' BY <2>1 DEF IInv, TypeOK
    <2>3. InFlightTrue' BY <2>1 DEF IInv, InFlightTrue, FrameTrue, SnapshotTrue
    <2>4. PageInv' /\ NothingSkipped' /\ TerminalIsTrue'
      BY <2>1 DEF IInv, PageInv, NothingSkipped, TerminalIsTrue
    <2>. QED BY <2>2, <2>3, <2>4 DEF IInv
  <1>. QED BY <1>2, <1>3, <1>4, <1>5, <1>6, <1>7, <1>8, <1>9, <1>10 DEF Next

THEOREM Invariant == Spec => []IInv
  BY InvInit, InvNext, PTL DEF Spec

\* The page, its requests and the connection keep their shapes (taskEventClient.ts,
\* taskReducer.ts, index.ts).
THEOREM TypeCorrect == Spec => []TypeOK
  <1>1. IInv => TypeOK BY DEF IInv
  <1>. QED BY <1>1, Invariant, PTL

\* No cursor the client holds, stores or presents is ahead of the log, so its own
\* cursor is never refused (SSE_CURSOR_AHEAD_OF_SERVER, decide_reconnect).
THEOREM CursorsNeverAhead == Spec => []CursorNotAhead
  <1>1. IInv => CursorNotAhead BY DEF IInv, PageInv, CursorNotAhead
  <1>. QED BY <1>1, Invariant, PTL

\* Resuming from a cursor, after a drop or a reload, skips no streamable event that
\* no snapshot covers (TaskEventClient._applyEvent and _reconcileSnapshot).
THEOREM ResumeSkipsNothing == Spec => []NothingSkipped
  <1>1. IInv => NothingSkipped BY DEF IInv
  <1>. QED BY <1>1, Invariant, PTL

\* A terminal display or label tells how the task really ended (terminal_display_for,
\* reduceTaskStream, deriveTaskView).
THEOREM TerminalNeverLies == Spec => []TerminalIsTrue
  <1>1. IInv => TerminalIsTrue BY DEF IInv
  <1>. QED BY <1>1, Invariant, PTL

\* No event, snapshot or frame still on its way replaces a terminal display: it would
\* have to tell of another end (reduceTaskStream).
THEOREM TerminalStays == Spec => TerminalKept
  <1>. DEFINE Kept == page.display # None => page'.display = page.display \/ refreshes' # refreshes
  <1>1. IInv /\ IInv' /\ [Next]_vars => [Kept]_vars
    <2>. SUFFICES ASSUME IInv, IInv', [Next]_vars, page.display # None, refreshes' = refreshes
                  PROVE page'.display = page.display
      OBVIOUS
    <2>1. page.display = status BY DEF IInv, TerminalIsTrue
    <2>2. page.display \in Terminal BY DEF IInv, TypeOK, Page
    <2>3. status' = status BY <2>1, <2>2, TaskGrows DEF IInv, Grows
    <2>4. page'.display # None => page'.display = status BY <2>3 DEF IInv, TerminalIsTrue
    <2>5. page'.display # None
      <3>1. CASE UNCHANGED page BY <3>1
      <3>2. CASE DeliverFrame
        <4>1. PICK f \in link.frames :
                IgnoreFrame(f) \/ GapFrame(f) \/ NextFrame(f) \/ TerminalFrame(f)
          BY <3>2 DEF DeliverFrame
        <4>2. CASE f.type # "terminal"
          <5>1. IgnoreFrame(f)
            BY <4>1, <4>2 DEF Ignored, GapFrame, NextFrame, TerminalFrame
          <5>. QED BY <5>1 DEF IgnoreFrame, pageVars
        <4>3. CASE f.type = "terminal"
          <5>1. f \in Frame BY DEF IInv, TypeOK, Link
          <5>2. f.display \in Terminal BY <4>3, <5>1, StatusFacts DEF Frame
          <5>3. TerminalFrame(f) BY <4>1, <4>3 DEF IgnoreFrame, GapFrame, NextFrame
          <5>4. page \in Page BY DEF IInv, TypeOK
          <5>5. page' \in {page, WithTerminal(page, f.display)} BY <5>3 DEF TerminalFrame
          <5>6. WithTerminal(page, f.display).display = f.display
            BY <5>2, <5>4, TerminalFields
          <5>. QED BY <5>2, <5>5, <5>6, StatusFacts
        <4>. QED BY <4>2, <4>3
      <3>3. CASE ApplySnapshot
        <4>1. PICK s \in snaps.answers : page' = AfterSnapshot(s) BY <3>3 DEF ApplySnapshot
        <4>2. s \in Snapshot /\ page \in Page BY DEF IInv, TypeOK
        <4>3. page'.display = IF s.status \in Terminal THEN s.status ELSE page.display
          BY <4>1, <4>2, AfterSnapshotFields, Zenon
        <4>. QED BY <4>3, StatusFacts
      <3>4. CASE Refresh
        BY <3>4, EventStreamAssumption DEF Refresh, IInv, TypeOK
      <3>5. CASE \/ WriterStep \/ OpenStream \/ ReadRow \/ ListEvents \/ CloseStream \/ DropStream
                 \/ AnswerSnapshot \/ LoseSnapshot \/ ShowResult \/ LoseResult
                 \/ ClickCancel \/ AnswerCancel \/ ShowCancel \/ LoseCancel \/ UNCHANGED vars
        BY <3>1, <3>5 DEF WriterStep, OpenStream, ReadRow, ListEvents, CloseStream, DropStream,
             AnswerSnapshot, LoseSnapshot, ShowResult, LoseResult, ClickCancel, AnswerCancel,
             ShowCancel, LoseCancel, vars, pageVars
      <3>. QED BY <3>2, <3>3, <3>4, <3>5 DEF Next
    <2>. QED BY <2>1, <2>4, <2>5
  <1>. QED BY <1>1, Invariant, PTL DEF Spec, TerminalKept
=============================================================================
