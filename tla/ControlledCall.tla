---------------------------- MODULE ControlledCall ----------------------------
(***************************************************************************)
(* The controlled model call: ModelGatewayService.complete with its model  *)
(* call ledger, budget reservation and ledger, one-shot egress permit, and *)
(* the last hop (admission, secret broker, bridge) to the provider.        *)
(*                                                                         *)
(* complete() commits one transaction before the stream and one after it;  *)
(* each is an action, as are the short transactions of the permit          *)
(* authority.  Bifrost, between the gateway and the bridge, may hand the   *)
(* bridge one request several times, altered or very late.                 *)
(*                                                                         *)
(* A quantity of budget (its five dimensions) is one number.  The versions *)
(* that permit and call carry are never updated, so comparing them is left *)
(* out.  Name_Fault is Name with a plausible fault, kept to confirm that a *)
(* property notices it.                                                    *)
(***************************************************************************)
EXTENDS Integers, Sequences, FiniteSets

CONSTANTS Run,         \* executions of complete()
          Call,        \* model_call_ids
          Hop,         \* requests that reach the bridge (bounds their number)
          Reserved,    \* the reservation of a call
          MaxUsage,    \* bound: the largest usage a provider reports
          MaxFaults,   \* bound: processes that die in complete()
          NoOne

ASSUME ControlledCallAssumption == /\ Reserved \in Nat \ {0} /\ MaxUsage \in Nat
                                   /\ MaxFaults \in Nat
                                   /\ NoOne \notin Run /\ NoOne \notin Call

VARIABLES pack,       \* state of the context pack the calls are made with
          call,       \* model_call rows
          resv,       \* budget_reservation rows, one per execution
          ledger,     \* budget_ledger_entry rows of each reservation
          permit,     \* egress_permit rows
          overdue,    \* calls whose permit has passed expires_at
          run,        \* executions of complete()
          hop,        \* requests on the last hop
          executed,   \* calls the provider has executed
          faults

gatewayVars == <<pack, call, resv, ledger, run>>
vars == <<pack, call, resv, ledger, permit, overdue, run, hop, executed, faults>>

-----------------------------------------------------------------------------
(* State *)

TerminalCall == {"COMPLETED", "FAILED", "UNKNOWN"}

\* ACCEPTED and STREAMING are states inside a transaction: no other sees them.
ModelCall == [status : {"ABSENT", "SENDING"} \union TerminalCall, by : Run \union {NoOne}]

Reservation == [status : {"ABSENT", "CONSUMING", "SETTLED"}, settled : 0..Reserved]

Entry == [kind : {"RESERVE", "SETTLE", "WORST_CASE_SETTLE", "RETURN"}, delta : Int]

PermitStatus == {"ABSENT", "READY", "ADMITTED", "SECRET_READ", "EXPIRED"}

Unreported == -1
Usage == 0..MaxUsage

\* What complete() knows: its call, and the state of the normalised stream.
Complete == [pc : {"idle", "issuing", "streaming", "closing", "returned", "raised", "crashed"},
             call : Call \union {NoOne},
             asked : BOOLEAN,                           \* Bifrost was called
             started : BOOLEAN,                         \* stream_started
             usage : Usage \union {Unreported},         \* provider_usage
             error : {"none", "network", "status", "stream"}]

Sent == {"streaming", "rejected", "unknown"}
Request == [pc : {"none", "arrived", "admitted", "keyed", "refused"} \union Sent,
            call : Call \union {NoOne}, altered : BOOLEAN]

TypeOK == /\ pack \in {"READY", "CONSUMED", "UNUSABLE"}
          /\ call \in [Call -> ModelCall]
          /\ resv \in [Run -> Reservation]
          /\ ledger \in [Run -> Seq(Entry)]
          /\ permit \in [Call -> PermitStatus]
          /\ overdue \subseteq Call
          /\ run \in [Run -> Complete]
          /\ hop \in [Hop -> Request]
          /\ executed \subseteq Call
          /\ faults \in 0..MaxFaults

Init == /\ pack \in {"READY", "UNUSABLE"}
        /\ call = [c \in Call |-> [status |-> "ABSENT", by |-> NoOne]]
        /\ resv = [r \in Run |-> [status |-> "ABSENT", settled |-> 0]]
        /\ ledger = [r \in Run |-> <<>>]
        /\ permit = [c \in Call |-> "ABSENT"]
        /\ overdue = {}
        /\ run = [r \in Run |-> [pc |-> "idle", call |-> NoOne, asked |-> FALSE,
                                 started |-> FALSE, usage |-> Unreported, error |-> "none"]]
        /\ hop = [h \in Hop |-> [pc |-> "none", call |-> NoOne, altered |-> FALSE]]
        /\ executed = {}
        /\ faults = 0

RunMoves(r, pc) == run' = [run EXCEPT ![r].pc = pc]

-----------------------------------------------------------------------------
(* The repositories: inserts that do nothing on conflict, updates that compare *)
(* the status (and row version) they expect                                    *)

InsertCall(c, r) == /\ call[c].status = "ABSENT"
                    /\ call' = [call EXCEPT ![c] = [status |-> "SENDING", by |-> r]]
EndCall(c, status) == /\ call[c].status = "SENDING"
                      /\ call' = [call EXCEPT ![c].status = status]

Reserve(r) == /\ resv[r].status = "ABSENT"
              /\ resv' = [resv EXCEPT ![r].status = "CONSUMING"]
EndReservation(r, status, amount) ==
  /\ resv[r].status = "CONSUMING"
  /\ resv' = [resv EXCEPT ![r] = [status |-> status, settled |-> amount]]

AppendEntries(r, entries) == ledger' = [ledger EXCEPT ![r] = @ \o entries]

-----------------------------------------------------------------------------
(* complete(): before the stream *)

\* _persist_pre_stream, refused: the pack cannot be consumed, or the call exists
\* (MODEL_CALL_REPLAY_UNSUPPORTED).  Everything is rolled back.
Refuse(r, c) ==
  /\ run[r].pc = "idle"
  /\ pack = "UNUSABLE" \/ call[c].status # "ABSENT"
  /\ run' = [run EXCEPT ![r].pc = "raised", ![r].call = c]
  /\ UNCHANGED <<pack, call, resv, ledger, permit, overdue, hop, executed, faults>>

\* _persist_pre_stream and its commit: pack consumed, call ACCEPTED and SENDING,
\* reservation RESERVED and CONSUMING, one RESERVE entry.
Accept(r, c) ==
  /\ run[r].pc = "idle"
  /\ pack # "UNUSABLE" /\ pack' = "CONSUMED"
  /\ InsertCall(c, r) /\ Reserve(r)
  /\ AppendEntries(r, <<[kind |-> "RESERVE", delta |-> Reserved]>>)
  /\ run' = [run EXCEPT ![r].pc = "issuing", ![r].call = c]
  /\ UNCHANGED <<permit, overdue, hop, executed, faults>>

\* issue_ready: a READY permit for a SENDING call; then Bifrost is called.
IssuePermit(r) ==
  LET c == run[r].call IN
  /\ run[r].pc = "issuing"
  /\ c \notin overdue /\ call[c].status = "SENDING" /\ permit[c] = "ABSENT"
  /\ permit' = [permit EXCEPT ![c] = "READY"]
  /\ run' = [run EXCEPT ![r].pc = "streaming", ![r].asked = TRUE]
  /\ UNCHANGED <<pack, call, resv, ledger, overdue, hop, executed, faults>>

\* The secret version cannot be resolved, the permit would be expired, or the
\* answer of its transaction is lost: the exception leaves complete().
IssueFails(r) ==
  /\ run[r].pc = "issuing"
  /\ permit' \in {permit, [permit EXCEPT ![run[r].call] = "READY"]}
  /\ RunMoves(r, "raised")
  /\ UNCHANGED <<pack, call, resv, ledger, overdue, hop, executed, faults>>

PermitExpires(c) ==
  /\ c \notin overdue /\ overdue' = overdue \union {c}
  /\ call[c].status # "ABSENT"
  /\ UNCHANGED <<gatewayVars, permit, hop, executed, faults>>

-----------------------------------------------------------------------------
(* The last hop *)

\* Bifrost hands the bridge the request of a call it was asked for.
HopArrives(h, c) ==
  /\ hop[h].pc = "none"
  /\ \E r \in Run : run[r].call = c /\ run[r].asked
  /\ \E altered \in BOOLEAN :
       hop' = [hop EXCEPT ![h] = [pc |-> "arrived", call |-> c, altered |-> altered]]
  /\ UNCHANGED <<gatewayVars, permit, overdue, executed, faults>>

Expired(c) == IF permit[c] \in {"READY", "ADMITTED"} THEN "EXPIRED" ELSE permit[c]

HopMoves(h, pc) == hop' = [hop EXCEPT ![h].pc = pc]

\* The call is still to be sent, and the request is the approved one.
Approved(h) == call[hop[h].call].status = "SENDING" /\ ~ hop[h].altered

\* admit: one transaction on call and permit; the answer may be lost.
Admit(h, answered) ==
  LET c == hop[h].call
      granted == Approved(h) /\ c \notin overdue /\ permit[c] = "READY"
  IN
  /\ hop[h].pc = "arrived"
  /\ permit' = [permit EXCEPT ![c] = IF granted THEN "ADMITTED"
                                     ELSE IF Approved(h) /\ c \in overdue THEN Expired(c) ELSE @]
  /\ HopMoves(h, IF granted /\ answered THEN "admitted" ELSE "refused")
  /\ UNCHANGED <<gatewayVars, overdue, executed, faults>>

\* read_provider_key: authorize consumes the permit in one transaction; then the
\* key is read, which may fail, or the answer may be lost.
Authorize(h, answered) ==
  LET c == hop[h].call
      current == call[c].status = "SENDING"
      granted == current /\ c \notin overdue /\ permit[c] = "ADMITTED"
  IN
  /\ hop[h].pc = "admitted"
  /\ permit' = [permit EXCEPT ![c] = IF granted THEN "SECRET_READ"
                                     ELSE IF current /\ c \in overdue THEN Expired(c) ELSE @]
  /\ HopMoves(h, IF granted /\ answered THEN "keyed" ELSE "refused")
  /\ UNCHANGED <<gatewayVars, overdue, executed, faults>>

\* Fault: an unknown outcome gives the permit back, for a retry.
Post_ReleasesOnUnknown(h, outcome) ==
  /\ hop[h].pc = "keyed" /\ outcome \in Sent
  /\ executed' = executed \union {hop[h].call}
  /\ HopMoves(h, outcome)
  /\ permit' = [permit EXCEPT ![hop[h].call] = IF outcome = "unknown" THEN "READY" ELSE @]
  /\ UNCHANGED <<gatewayVars, overdue, faults>>

\* The bridge sends the request: the provider streams an answer, rejects it, or
\* the connection fails with the outcome unknown.
Post(h, outcome) ==
  LET c == hop[h].call IN
  /\ hop[h].pc = "keyed" /\ outcome \in Sent
  /\ executed' \in CASE outcome = "streaming" -> {executed \union {c}}
                     [] outcome = "rejected" -> {executed}
                     [] outcome = "unknown" -> {executed, executed \union {c}}
  /\ HopMoves(h, outcome)
  /\ UNCHANGED <<gatewayVars, permit, overdue, faults>>

-----------------------------------------------------------------------------
(* complete(): the stream *)

Answering(c) == \E h \in Hop : hop[h].call = c /\ hop[h].pc = "streaming"
Failing(c) == \E h \in Hop : hop[h].call = c /\ hop[h].pc \in {"refused", "rejected", "unknown"}

StreamStep(r) == /\ run[r].pc = "streaming"
                 /\ UNCHANGED <<pack, call, resv, ledger, permit, overdue, hop, executed, faults>>

\* A text delta, the usage report, or a frame that cannot be parsed.
TextFrame(r) == /\ StreamStep(r) /\ Answering(run[r].call)
                /\ run' = [run EXCEPT ![r].started = TRUE]
UsageFrame(r, u) == /\ StreamStep(r) /\ Answering(run[r].call)
                    /\ run' = [run EXCEPT ![r].usage = u]
BadFrame(r) == /\ StreamStep(r) /\ Answering(run[r].call)
               /\ run' = [run EXCEPT ![r].error = "stream"]

EndOfStream(r) == StreamStep(r) /\ Answering(run[r].call) /\ RunMoves(r, "closing")

\* Bifrost answers with a status other than 200.
StatusError(r) == /\ StreamStep(r) /\ Failing(run[r].call) /\ ~ run[r].started
                  /\ run' = [run EXCEPT ![r].pc = "closing", ![r].error = "status"]

\* Fault: no timeout; only a broken connection ends the wait.
NetworkError_NoTimeout(r) ==
  /\ StreamStep(r) /\ Answering(run[r].call)
  /\ run' = [run EXCEPT ![r].pc = "closing", ![r].error = IF run[r].started THEN "stream" ELSE "network"]

\* A timeout, a broken connection, or any exception of the stream.
NetworkError(r) ==
  /\ StreamStep(r)
  /\ run' = [run EXCEPT ![r].pc = "closing", ![r].error = IF run[r].started THEN "stream" ELSE "network"]

-----------------------------------------------------------------------------
(* complete(): after the stream *)

\* resolve_stream_terminal.
Terminal(r) == CASE run[r].error = "none" -> "COMPLETED"
                 [] run[r].error = "network" /\ ~ run[r].started -> "UNKNOWN"
                 [] OTHER -> "FAILED"

\* Fault: an unreported usage is settled as nothing used.
Amount_Zero(r) == IF run[r].usage = Unreported THEN 0 ELSE run[r].usage

\* _settlement_quantity: what the provider reported, or the whole reservation.
Amount(r) == IF run[r].usage = Unreported THEN Reserved ELSE run[r].usage

\* Fault: the rest of the reservation is returned for any ending.
Settlement_AlwaysReturns(r) ==
  <<[kind |-> "SETTLE", delta |-> Amount(r)], [kind |-> "RETURN", delta |-> - Reserved]>>

\* The entries of _settle_budget.
Settlement(r) ==
  <<[kind |-> IF run[r].usage = Unreported THEN "WORST_CASE_SETTLE" ELSE "SETTLE",
     delta |-> Amount(r)]>>
  \o IF Amount(r) = Reserved THEN <<>>
     ELSE <<[kind |-> "RETURN", delta |-> Amount(r) - Reserved]>>

\* resolve_settlement: never RECONCILING, as an unreported usage is estimated.
SettledStatus(r) == "SETTLED"

WithinReservation(r) == Amount(r) <= Reserved

\* _persist_post_stream and its commit: terminal call and settled budget at once.
Settle(r) ==
  /\ run[r].pc = "closing" /\ WithinReservation(r)
  /\ EndCall(run[r].call, Terminal(r))
  /\ EndReservation(r, SettledStatus(r), Amount(r))
  /\ AppendEntries(r, Settlement(r))
  /\ RunMoves(r, "returned")
  /\ UNCHANGED <<pack, permit, overdue, hop, executed, faults>>

\* settle_deltas raises BudgetSettlementOverrunError, which nothing catches: the
\* terminal status of the call is rolled back with it.
Overrun(r) ==
  /\ run[r].pc = "closing" /\ ~ WithinReservation(r)
  /\ RunMoves(r, "raised")
  /\ UNCHANGED <<pack, call, resv, ledger, permit, overdue, hop, executed, faults>>

\* The process dies, or the task that awaits complete() is cancelled.
Crash(r) ==
  /\ run[r].pc \in {"issuing", "streaming", "closing"}
  /\ faults < MaxFaults /\ faults' = faults + 1
  /\ RunMoves(r, "crashed")
  /\ UNCHANGED <<pack, call, resv, ledger, permit, overdue, hop, executed>>

-----------------------------------------------------------------------------
(* Specification *)

Ended == {"returned", "raised", "crashed"}
Done == (\A r \in Run : run[r].pc \in Ended) /\ UNCHANGED vars

GatewayStep(r) == \/ IssuePermit(r) \/ IssueFails(r)
                  \/ TextFrame(r) \/ BadFrame(r) \/ \E u \in Usage : UsageFrame(r, u)
                  \/ EndOfStream(r) \/ StatusError(r) \/ NetworkError(r)
                  \/ Settle(r) \/ Overrun(r)

HopStep(h) == \/ \E answered \in BOOLEAN : Admit(h, answered) \/ Authorize(h, answered)
              \/ \E outcome \in Sent : Post(h, outcome)

Next == \/ \E r \in Run, c \in Call : Refuse(r, c) \/ Accept(r, c)
        \/ \E r \in Run : GatewayStep(r) \/ Crash(r)
        \/ \E c \in Call : PermitExpires(c) \/ \E h \in Hop : HopArrives(h, c)
        \/ \E h \in Hop : HopStep(h)
        \/ Done

\* A living process goes on; its HTTP client has a timeout, so the stream ends.
\* Neither Bifrost nor the bridge is obliged to do anything.
Fairness == \A r \in Run : /\ WF_vars(IssuePermit(r) \/ IssueFails(r))
                           /\ WF_vars(NetworkError(r))
                           /\ WF_vars(Settle(r) \/ Overrun(r))

Spec == Init /\ [][Next]_vars
FairSpec == Spec /\ Fairness

-----------------------------------------------------------------------------
(* Properties *)

\* A call is sent to the provider at most once and as it was approved, however often
\* Bifrost repeats the request and whichever copy is altered, admitted or lost.
SentOnceAsApproved ==
  \A h \in Hop : hop[h].pc \in Sent =>
    /\ ~ hop[h].altered
    /\ \A k \in Hop : hop[k].pc \in Sent /\ hop[k].call = hop[h].call => k = h

\* The call ends and its reservation is settled in one step, for every ending:
\* there is no unsettled terminal call and no settled open one.
CallAndBudgetAgree ==
  \A c \in Call : call[c].status # "ABSENT" =>
    (call[c].status \in TerminalCall <=> resv[call[c].by].status = "SETTLED")

TotalOf(r, kinds) ==
  LET d(i) == IF ledger[r][i].kind \in kinds THEN ledger[r][i].delta ELSE 0
      sum[i \in 0..Len(ledger[r])] == IF i = 0 THEN 0 ELSE sum[i - 1] + d(i)
  IN  sum[Len(ledger[r])]

\* The ledger balances: what was reserved is what was settled plus what was
\* returned once the reservation is settled, and the entries agree with the row.
LedgerBalances ==
  \A r \in Run : resv[r].status = "SETTLED" =>
    /\ TotalOf(r, {"SETTLE", "WORST_CASE_SETTLE"}) = resv[r].settled
    /\ TotalOf(r, {"RESERVE"}) = resv[r].settled - TotalOf(r, {"RETURN"})

\* Budget is returned only on a report of the provider: a call that may have been
\* executed, or still may be, is never settled for less than the reservation.
UnreportedIsPaidInFull ==
  \A r \in Run : resv[r].status = "SETTLED" /\ resv[r].settled < Reserved =>
    run[r].usage = resv[r].settled /\ run[r].call \in executed

\* A call that was sent on its way reaches a terminal status, unless its process
\* died, its permit could not be issued, or its usage overran the reservation.
CallsEnd == \A c \in Call : (call[c].status = "SENDING") ~>
              \/ call[c].status \in TerminalCall
              \/ call[c].by \in Run /\ run[call[c].by].pc \in {"crashed", "raised"}

\* Call and budget as seen by whoever pays: the calls implement one-shot egress.
Paid(c) == IF call[c].status = "ABSENT" THEN "NEW"
           ELSE IF resv[call[c].by].status = "SETTLED" THEN "SETTLED" ELSE "RESERVED"

Egress == INSTANCE OneShotEgress WITH
  paid <- [c \in Call |-> Paid(c)],
  charge <- [c \in Call |-> IF call[c].by = NoOne THEN 0 ELSE resv[call[c].by].settled],
  sent <- {hop[h].call : h \in {k \in Hop : hop[k].pc \in Sent}}

ImplementsEgress == Egress!Spec
=============================================================================
