------------------------ MODULE TaskCreationProofs ------------------------
(* Theorems about TaskCreation, for any number of requests, users, keys and   *)
(* conversations.                                                             *)
(*                                                                           *)
(* The properties rest on one inductive invariant. Tables: the three tables   *)
(* written together stay in a one-to-one relation. Progress: what an          *)
(* execution has read is not ahead of the tables, and one that was beaten has *)
(* a winner. Answered: what an execution was answered can be read off a row.  *)
EXTENDS TaskCreation, TLAPS

Running == {"waiting", "loaded", "writing", "rereading"}

\* What an execution under way has left in the tables, and what it has read.
Progress(e) ==
  /\ creation[e].pc \in Running =>
       /\ creation[e].answer = Unset /\ creation[e].named = Unset
       /\ \A t \in tasks : t.id # e
       /\ \A i \in idem : i.task # e
       /\ \A m \in messages : m.task # e
  /\ creation[e].pc \in {"loaded", "writing", "rereading"} =>
       creation[e].sequence \in 1..(LastSequence(asked[e].request.conversation) + 1)
  /\ creation[e].pc = "rereading" =>
       \/ Entries(e) # {}
       \/ creation[e].sequence <= LastSequence(asked[e].request.conversation)

\* The row behind an answer.
Answered(e) ==
  /\ creation[e].named # Unset =>
       \E i \in idem :
         /\ i.actor = asked[e].actor /\ i.key = asked[e].key
         /\ i.request = asked[e].request /\ i.task = creation[e].named
  /\ creation[e].answer = "REUSED" =>
       \E i \in idem :
         /\ i.actor = asked[e].actor /\ i.key = asked[e].key
         /\ i.request # asked[e].request

\* MessagesInOrder, with the length of each conversation named.
Numbered ==
  /\ \A c \in Conversation : \E n \in Nat : Sequences(c) = 1..n
  /\ \A m, n \in messages :
       m.conversation = n.conversation /\ m.sequence = n.sequence => m = n

IInv ==
  /\ CreationTypeOK
  /\ OneTaskPerKey
  /\ Numbered
  /\ \A e \in Exec : Progress(e) /\ Answered(e)

-----------------------------------------------------------------------------
(* Numbers of a conversation. *)

\* The maximum of an initial segment is its length.
LEMMA SegmentMax ==
  ASSUME NEW S, NEW n \in Nat, S = 1..n
  PROVE  (IF S = {} THEN 0 ELSE CHOOSE j \in S : \A k \in S : k <= j) = n
<1>1. CASE n = 0
  BY <1>1
<1>2. CASE n # 0
  <2>1. n \in S /\ \A k \in S : k <= n
    BY <1>2
  <2>2. \A j \in S : (\A k \in S : k <= j) => j = n
    BY <2>1
  <2> QED
    BY <2>1, <2>2, Zenon
<1> QED
  BY <1>1, <1>2

\* A conversation has a last number, and its numbers are 1 up to that one.
LEMMA LastIsNat ==
  ASSUME NEW c \in Conversation, Numbered
  PROVE  LastSequence(c) \in Nat /\ Sequences(c) = 1..LastSequence(c)
<1>1. PICK n \in Nat : Sequences(c) = 1..n
  BY DEF Numbered
<1>2. LastSequence(c) = n
  BY <1>1, SegmentMax DEF LastSequence
<1> QED
  BY <1>1, <1>2

-----------------------------------------------------------------------------
(* The transaction that stores a task. *)

\* The message that StoreTask adds, as the other operators see it.
LEMMA StoredSequences ==
  ASSUME NEW e \in Exec, StoreTask(e), NEW c
  PROVE  Sequences(c)' = Sequences(c) \union
           (IF c = asked[e].request.conversation THEN {creation[e].sequence} ELSE {})
<1> DEFINE new == [conversation |-> asked[e].request.conversation,
                   sequence |-> creation[e].sequence, task |-> e]
<1>1. messages' = messages \union {new}
  BY DEF StoreTask
<1>2. new.conversation = asked[e].request.conversation /\ new.sequence = creation[e].sequence
  OBVIOUS
<1> HIDE DEF new
<1>3. CASE c = asked[e].request.conversation
  <2>1. {n \in messages' : n.conversation = c} = {n \in messages : n.conversation = c} \union {new}
    BY <1>1, <1>2, <1>3
  <2> QED
    BY <2>1, <1>2, <1>3 DEF Sequences
<1>4. CASE c # asked[e].request.conversation
  <2>1. {n \in messages' : n.conversation = c} = {n \in messages : n.conversation = c}
    BY <1>1, <1>2, <1>4
  <2> QED
    BY <2>1, <1>4 DEF Sequences
<1> QED
  BY <1>3, <1>4

\* The number stored is the one after the last: a number that was read and has not
\* been taken since is still the next one.
LEMMA StoredNumber ==
  ASSUME NEW e \in Exec, CreationTypeOK, Numbered, Progress(e),
         creation[e].pc = "writing", ~Clashes(e), StoreTask(e),
         NEW c, c = asked[e].request.conversation
  PROVE  /\ c \in Conversation
         /\ LastSequence(c) \in Nat
         /\ creation[e].sequence = LastSequence(c) + 1
         /\ Sequences(c)' = 1..(LastSequence(c) + 1)
         /\ LastSequence(c)' = LastSequence(c) + 1
<1> DEFINE n == LastSequence(c)
<1>1. c \in Conversation
  BY DEF CreationTypeOK, Order, Request
<1>2. n \in Nat /\ Sequences(c) = 1..n
  BY <1>1, LastIsNat
<1>3. creation[e].sequence \in 1..(n + 1) /\ creation[e].sequence \notin 1..n
  BY <1>2 DEF Progress, Clashes
<1>4. creation[e].sequence = n + 1
  BY <1>2, <1>3
<1>5. Sequences(c)' = (1..n) \union {n + 1}
  BY <1>2, <1>4, StoredSequences
<1>6. Sequences(c)' = 1..(n + 1)
  BY <1>2, <1>5
<1>7. n + 1 \in Nat
  BY <1>2
<1>8. LastSequence(c)' = n + 1
  BY <1>6, <1>7, SegmentMax DEF LastSequence
<1> QED
  BY <1>1, <1>2, <1>4, <1>6, <1>8

\* Other conversations keep their numbers.
LEMMA OthersKeepNumbers ==
  ASSUME NEW e \in Exec, StoreTask(e),
         NEW c, c # asked[e].request.conversation
  PROVE  Sequences(c)' = Sequences(c) /\ LastSequence(c)' = LastSequence(c)
<1>1. Sequences(c)' = Sequences(c)
  BY StoredSequences
<1> QED
  BY <1>1 DEF LastSequence

\* A store only adds rows, and it needs a key that nobody has spent.
LEMMA StoredTables ==
  ASSUME NEW e \in Exec, CreationTypeOK, OneTaskPerKey, Numbered, Progress(e),
         creation[e].pc = "writing", ~Clashes(e), StoreTask(e), UNCHANGED asked
  PROVE  OneTaskPerKey'
<1> DEFINE t0 == [id |-> e, owner |-> asked[e].actor, request |-> asked[e].request]
           i0 == [actor |-> asked[e].actor, key |-> asked[e].key,
                  request |-> asked[e].request, task |-> e]
           m0 == [conversation |-> asked[e].request.conversation,
                  sequence |-> creation[e].sequence, task |-> e]
<1>1. tasks' = tasks \union {t0} /\ idem' = idem \union {i0} /\ messages' = messages \union {m0}
  BY DEF StoreTask
<1>2. /\ t0.id = e /\ t0.owner = asked[e].actor /\ t0.request = asked[e].request
      /\ i0.actor = asked[e].actor /\ i0.key = asked[e].key
      /\ i0.request = asked[e].request /\ i0.task = e
      /\ m0.conversation = asked[e].request.conversation /\ m0.task = e
  OBVIOUS
<1> HIDE DEF t0, i0, m0
<1>3. /\ \A t \in tasks : t.id # e
      /\ \A i \in idem : i.task # e
      /\ \A m \in messages : m.task # e
  BY DEF Progress, Running
<1>4. \A i \in idem : ~(i.actor = asked[e].actor /\ i.key = asked[e].key)
  BY DEF Clashes, Entries
<1>5. \A t \in tasks' :
        /\ \E i \in idem' : i.task = t.id /\ i.actor = t.owner /\ i.request = t.request
        /\ \E m \in messages' : m.task = t.id /\ m.conversation = t.request.conversation
  BY <1>1, <1>2 DEF OneTaskPerKey
<1>6. \A i \in idem' :
        \E t \in tasks' : i.task = t.id /\ i.actor = t.owner /\ i.request = t.request
  BY <1>1, <1>2 DEF OneTaskPerKey
<1>7. \A i, j \in idem' : (i.actor = j.actor /\ i.key = j.key) \/ i.task = j.task => i = j
  BY <1>1, <1>2, <1>3, <1>4 DEF OneTaskPerKey
<1>8. \A m, n \in messages' : m.task = n.task => m = n
  BY <1>1, <1>2, <1>3 DEF OneTaskPerKey
<1> QED
  BY <1>5, <1>6, <1>7, <1>8 DEF OneTaskPerKey

\* A store keeps the numbering of every conversation.
LEMMA StoredNumbered ==
  ASSUME NEW e \in Exec, CreationTypeOK, Numbered, Progress(e),
         creation[e].pc = "writing", ~Clashes(e), StoreTask(e)
  PROVE  Numbered'
<1>1. PICK v : v = asked[e].request.conversation
  OBVIOUS
<1>2. ASSUME NEW c \in Conversation PROVE \E n \in Nat : Sequences(c)' = 1..n
  <2>1. CASE c = v
    <3>1. LastSequence(c) \in Nat /\ Sequences(c)' = 1..(LastSequence(c) + 1)
      BY <1>1, <2>1, StoredNumber
    <3> QED
      BY <3>1
  <2>2. CASE c # v
    BY <1>1, <2>2, OthersKeepNumbers DEF Numbered
  <2> QED
    BY <2>1, <2>2
<1>3. ASSUME NEW m \in messages', NEW n \in messages',
             m.conversation = n.conversation, m.sequence = n.sequence
      PROVE  m = n
  <2> DEFINE m0 == [conversation |-> asked[e].request.conversation,
                    sequence |-> creation[e].sequence, task |-> e]
  <2>1. messages' = messages \union {m0}
    BY DEF StoreTask
  <2>2. m0.conversation = asked[e].request.conversation /\ m0.sequence = creation[e].sequence
    OBVIOUS
  <2> HIDE DEF m0
  <2>3. \A k \in messages : ~(k.conversation = asked[e].request.conversation /\ k.sequence = creation[e].sequence)
    BY DEF Clashes, Sequences
  <2> QED
    BY <1>3, <2>1, <2>2, <2>3 DEF Numbered
<1> QED
  BY <1>2, <1>3 DEF Numbered
-----------------------------------------------------------------------------
(* One execution moves, the others stand still. *)

\* What Respond leaves in the execution that is answered.
LEMMA Responded ==
  ASSUME NEW e \in Exec, creation \in [Exec -> Creation],
         NEW a \in CreationAnswer, NEW t \in Exec \union {Unset}, Respond(e, a, t)
  PROVE  /\ creation' \in [Exec -> Creation]
         /\ creation'[e].pc = "answered" /\ creation'[e].answer = a /\ creation'[e].named = t
         /\ \A f \in Exec \ {e} : creation'[f] = creation[f]
<1>1. creation[e] \in Creation
  OBVIOUS
<1> DEFINE new == [creation[e] EXCEPT !.pc = "answered", !.answer = a, !.named = t]
<1>2. creation' = [creation EXCEPT ![e] = new]
  BY DEF Respond
<1>3. new \in Creation /\ new.pc = "answered" /\ new.answer = a /\ new.named = t
  BY <1>1 DEF Creation
<1> HIDE DEF new
<1> QED
  BY <1>2, <1>3

\* The same for a step that only moves the program counter.
LEMMA Moved ==
  ASSUME NEW e \in Exec, creation \in [Exec -> Creation],
         NEW p \in {"writing", "rereading", "lost"}, creation' = [creation EXCEPT ![e].pc = p]
  PROVE  /\ creation' \in [Exec -> Creation]
         /\ creation'[e].pc = p /\ creation'[e].sequence = creation[e].sequence
         /\ creation'[e].answer = creation[e].answer /\ creation'[e].named = creation[e].named
         /\ \A f \in Exec \ {e} : creation'[f] = creation[f]
<1>1. creation[e] \in Creation
  OBVIOUS
<1> DEFINE new == [creation[e] EXCEPT !.pc = p]
<1>2. creation' = [creation EXCEPT ![e] = new]
  OBVIOUS
<1>3. new \in Creation /\ new.pc = p /\ new.sequence = creation[e].sequence
      /\ new.answer = creation[e].answer /\ new.named = creation[e].named
  BY <1>1 DEF Creation
<1> HIDE DEF new
<1> QED
  BY <1>2, <1>3

\* An execution that stands still while the tables do keeps its invariants.
LEMMA StandsStill ==
  ASSUME NEW f \in Exec, Progress(f), Answered(f), creation'[f] = creation[f],
         UNCHANGED <<asked, tasks, idem, messages>>
  PROVE  Progress(f)' /\ Answered(f)'
BY DEF Progress, Answered, Entries, LastSequence, Sequences

\* Tables that stand still keep theirs.
LEMMA TablesStill ==
  ASSUME OneTaskPerKey, Numbered, UNCHANGED <<tasks, idem, messages>>
  PROVE  OneTaskPerKey' /\ Numbered'
BY DEF OneTaskPerKey, Numbered, Sequences

\* An execution that stands still while another one stores its task.
LEMMA OthersWhileStored ==
  ASSUME NEW e \in Exec, NEW f \in Exec, f # e, CreationTypeOK, Numbered, Progress(e),
         Progress(f), Answered(f), creation[e].pc = "writing", ~Clashes(e), StoreTask(e),
         creation'[f] = creation[f], UNCHANGED asked
  PROVE  Progress(f)' /\ Answered(f)'
<1>1. /\ \A t \in tasks' : t \in tasks \/ t.id = e
      /\ \A i \in idem' : i \in idem \/ i.task = e
      /\ \A m \in messages' : m \in messages \/ m.task = e
      /\ idem \subseteq idem'
  BY DEF StoreTask
<1>2. Entries(f) \subseteq Entries(f)'
  BY <1>1 DEF Entries
<1>3. PICK c : c = asked[f].request.conversation
  OBVIOUS
<1>4. c \in Conversation /\ LastSequence(c) \in Nat
  BY <1>3, LastIsNat DEF CreationTypeOK, Order, Request
<1>5. LastSequence(c)' \in Nat /\ LastSequence(c) <= LastSequence(c)'
  <2>1. CASE c = asked[e].request.conversation
    <3>1. LastSequence(c)' = LastSequence(c) + 1
      BY <2>1, StoredNumber
    <3> QED
      BY <1>4, <3>1
  <2>2. CASE c # asked[e].request.conversation
    <3>1. LastSequence(c)' = LastSequence(c)
      BY <2>2, OthersKeepNumbers
    <3> QED
      BY <1>4, <3>1
  <2> QED
    BY <2>1, <2>2
<1>6. asked'[f].request.conversation = c /\ creation'[f].sequence = creation[f].sequence
  BY <1>3
<1>7. creation[f].pc \in Running =>
        /\ creation[f].answer = Unset /\ creation[f].named = Unset
        /\ \A t \in tasks' : t.id # f
        /\ \A i \in idem' : i.task # f
        /\ \A m \in messages' : m.task # f
  BY <1>1 DEF Progress
<1>8. creation[f].sequence \in Nat
  BY DEF CreationTypeOK, Creation
<1>9. creation[f].pc \in {"loaded", "writing", "rereading"} =>
        creation[f].sequence \in 1..(LastSequence(c)' + 1)
  <2>1. creation[f].sequence \in 1..(LastSequence(c) + 1) => creation[f].sequence \in 1..(LastSequence(c)' + 1)
    BY <1>4, <1>5, <1>8
  <2> QED
    BY <1>3, <2>1 DEF Progress
<1>10. creation[f].pc = "rereading" => Entries(f)' # {} \/ creation[f].sequence <= LastSequence(c)'
  <2>1. creation[f].sequence <= LastSequence(c) => creation[f].sequence <= LastSequence(c)'
    BY <1>4, <1>5, <1>8
  <2> QED
    BY <1>2, <1>3, <2>1 DEF Progress
<1>11. Progress(f)'
  <2>1. LastSequence(asked[f].request.conversation)' = LastSequence(c)'
    BY <1>6 DEF LastSequence, Sequences
  <2> QED
    BY <1>7, <1>9, <1>10, <2>1 DEF Progress
<1>12. Answered(f)'
  BY <1>1 DEF Answered
<1> QED
  BY <1>11, <1>12
-----------------------------------------------------------------------------
(* The invariant. *)

LEMMA InitInvariant == CreationInit => IInv
<1> SUFFICES ASSUME CreationInit PROVE IInv
  OBVIOUS
<1>1. CreationTypeOK
  BY CreationAssumption DEF CreationInit, CreationTypeOK, Creation
<1>2. OneTaskPerKey
  BY DEF CreationInit, OneTaskPerKey
<1>3. Numbered
  <2>1. \A c : Sequences(c) = {}
    BY DEF CreationInit, Sequences
  <2>2. 0 \in Nat /\ {} = 1..0
    OBVIOUS
  <2> QED
    BY <2>1, <2>2 DEF CreationInit, Numbered
<1>4. \A e \in Exec : Progress(e) /\ Answered(e)
  BY CreationAssumption DEF CreationInit, Progress, Answered, Running, CreationAnswer
<1> QED
  BY <1>1, <1>2, <1>3, <1>4 DEF IInv

\* An execution that ends without a task of its own leaves the tables alone.
LEMMA EndsWithout ==
  ASSUME IInv, NEW e \in Exec, NEW a \in CreationAnswer, NEW t \in Exec \union {Unset},
         Respond(e, a, t), UNCHANGED <<asked, tasks, idem, messages, losses>>,
         t # Unset => \E i \in Entries(e) : i.request = asked[e].request /\ i.task = t,
         a = "REUSED" => \E i \in Entries(e) : i.request # asked[e].request
  PROVE  IInv'
<1> USE DEF IInv
<1>1. /\ creation' \in [Exec -> Creation]
      /\ creation'[e].pc = "answered" /\ creation'[e].answer = a /\ creation'[e].named = t
      /\ \A f \in Exec \ {e} : creation'[f] = creation[f]
  BY Responded DEF CreationTypeOK
<1>2. CreationTypeOK'
  BY <1>1 DEF CreationTypeOK
<1>3. OneTaskPerKey' /\ Numbered'
  BY TablesStill
<1>4. Progress(e)' /\ Answered(e)'
  BY <1>1 DEF Progress, Answered, Running, Entries
<1>5. \A f \in Exec \ {e} : Progress(f)' /\ Answered(f)'
  BY <1>1, StandsStill
<1> QED
  BY <1>2, <1>3, <1>4, <1>5

\* An execution that goes on without touching a table.
LEMMA GoesOn ==
  ASSUME IInv, NEW e \in Exec, creation[e].pc \in Running,
         NEW p \in {"writing", "rereading", "lost"}, creation' = [creation EXCEPT ![e].pc = p],
         UNCHANGED <<asked, tasks, idem, messages>>, losses' \in 0..MaxLosses,
         p # "lost" => creation[e].pc \in {"loaded", "writing"},
         p = "rereading" => Clashes(e)
  PROVE  IInv'
<1> USE DEF IInv
<1>1. /\ creation' \in [Exec -> Creation]
      /\ creation'[e].pc = p /\ creation'[e].sequence = creation[e].sequence
      /\ creation'[e].answer = creation[e].answer /\ creation'[e].named = creation[e].named
      /\ \A f \in Exec \ {e} : creation'[f] = creation[f]
  BY Moved DEF CreationTypeOK
<1>2. CreationTypeOK'
  BY <1>1 DEF CreationTypeOK
<1>3. OneTaskPerKey' /\ Numbered'
  BY TablesStill
<1>4. PICK c : c = asked[e].request.conversation
  OBVIOUS
<1>5. LastSequence(c) \in Nat /\ Sequences(c) = 1..LastSequence(c)
  BY <1>4, LastIsNat DEF CreationTypeOK, Order, Request
<1>6. p = "rereading" => Entries(e) # {} \/ creation[e].sequence <= LastSequence(c)
  BY <1>4, <1>5 DEF Clashes
<1>7. Entries(e)' = Entries(e) /\ LastSequence(asked[e].request.conversation)' = LastSequence(c)
  BY <1>4 DEF Entries, LastSequence, Sequences
<1>8. p # "lost" => creation[e].sequence \in 1..(LastSequence(c) + 1)
  BY <1>4 DEF Progress
<1>9. Progress(e)'
  BY <1>1, <1>6, <1>7, <1>8 DEF Progress, Running
<1>10. Answered(e)'
  BY <1>1 DEF Answered, Progress
<1>11. \A f \in Exec \ {e} : Progress(f)' /\ Answered(f)'
  BY <1>1, StandsStill
<1> QED
  BY <1>2, <1>3, <1>9, <1>10, <1>11

\* An execution that stores its task, whether or not its answer arrives.
LEMMA Stores ==
  ASSUME IInv, NEW e \in Exec, creation[e].pc = "writing", ~Clashes(e), StoreTask(e),
         UNCHANGED asked, losses' \in 0..MaxLosses,
         creation' \in [Exec -> Creation], \A f \in Exec \ {e} : creation'[f] = creation[f],
         creation'[e].pc \in {"answered", "lost"}, creation'[e].answer # "REUSED",
         creation'[e].named \in {e, Unset}
  PROVE  IInv'
<1> USE DEF IInv
<1> DEFINE t0 == [id |-> e, owner |-> asked[e].actor, request |-> asked[e].request]
           i0 == [actor |-> asked[e].actor, key |-> asked[e].key,
                  request |-> asked[e].request, task |-> e]
           m0 == [conversation |-> asked[e].request.conversation,
                  sequence |-> creation[e].sequence, task |-> e]
<1>1. asked[e] \in Order /\ creation[e].sequence \in Nat
  BY DEF CreationTypeOK, Creation
<1>2. t0 \in TaskRow /\ i0 \in Entry /\ m0 \in Message
  BY <1>1 DEF TaskRow, Entry, Message, Order, Request
<1>3. tasks' = tasks \union {t0} /\ idem' = idem \union {i0} /\ messages' = messages \union {m0}
  BY DEF StoreTask
<1>4. /\ i0 \in idem' /\ i0.actor = asked[e].actor /\ i0.key = asked[e].key
      /\ i0.request = asked[e].request /\ i0.task = e
  BY <1>3
<1> HIDE DEF t0, i0, m0
<1>5. CreationTypeOK'
  BY <1>2, <1>3 DEF CreationTypeOK
<1>6. OneTaskPerKey'
  BY StoredTables
<1>7. Numbered'
  BY StoredNumbered
<1>8. Progress(e)'
  BY DEF Progress, Running
<1>9. Answered(e)'
  BY <1>4 DEF Answered
<1>10. \A f \in Exec \ {e} : Progress(f)' /\ Answered(f)'
  BY OthersWhileStored
<1> QED
  BY <1>5, <1>6, <1>7, <1>8, <1>9, <1>10

\* A reply from a stored row.
LEMMA Replays ==
  ASSUME IInv, NEW e \in Exec, Replay(e), UNCHANGED <<asked, tasks, idem, messages, losses>>
  PROVE  IInv'
<1>1. PICK i \in Entries(e) :
        \/ i.request = asked[e].request /\ Respond(e, "REPLAYED", i.task)
        \/ i.request # asked[e].request /\ Respond(e, "REUSED", Unset)
  BY DEF Replay
<1>2. i.task \in Exec
  BY DEF IInv, CreationTypeOK, Entries, Entry
<1>3. CASE i.request = asked[e].request /\ Respond(e, "REPLAYED", i.task)
  BY <1>2, <1>3, EndsWithout DEF CreationAnswer
<1>4. CASE i.request # asked[e].request /\ Respond(e, "REUSED", Unset)
  BY <1>4, EndsWithout DEF CreationAnswer
<1> QED
  BY <1>1, <1>3, <1>4

LEMMA NextInvariant == IInv /\ [CreationNext]_creationVars => IInv'
<1> SUFFICES ASSUME IInv, [CreationNext]_creationVars PROVE IInv'
  OBVIOUS
<1>1. ASSUME NEW e \in Exec, LoadConversation(e) PROVE IInv'
  <2> DEFINE c == asked[e].request.conversation
  <2>1. CASE Respond(e, "NOT_FOUND", Unset)
    BY <1>1, <2>1, EndsWithout DEF LoadConversation, CreationAnswer
  <2>2. CASE creation' = [creation EXCEPT ![e].pc = "loaded", ![e].sequence = LastSequence(c) + 1]
    <3>1. c \in Conversation /\ LastSequence(c) \in Nat
      BY LastIsNat DEF IInv, CreationTypeOK, Order, Request
    <3>2. PICK s \in Nat : s = LastSequence(c) + 1 /\ s \in 1..(LastSequence(c) + 1)
      BY <3>1
    <3>3. creation[e] \in Creation /\ creation[e].pc = "waiting"
      BY <1>1 DEF IInv, CreationTypeOK, LoadConversation
    <3> DEFINE new == [creation[e] EXCEPT !.pc = "loaded", !.sequence = s]
    <3>4. creation' = [creation EXCEPT ![e] = new]
      BY <2>2, <3>2
    <3>5. /\ new \in Creation /\ new.pc = "loaded" /\ new.sequence = s
          /\ new.answer = creation[e].answer /\ new.named = creation[e].named
      BY <3>3 DEF Creation
    <3> HIDE DEF new
    <3>6. /\ creation' \in [Exec -> Creation]
          /\ creation'[e] = new
          /\ \A f \in Exec \ {e} : creation'[f] = creation[f]
      BY <3>4, <3>5 DEF IInv, CreationTypeOK
    <3>7. CreationTypeOK' /\ OneTaskPerKey' /\ Numbered'
      BY <1>1, <3>6, TablesStill DEF IInv, CreationTypeOK, LoadConversation
    <3>8. \A f \in Exec \ {e} : Progress(f)' /\ Answered(f)'
      BY <1>1, <3>6, StandsStill DEF IInv, LoadConversation
    <3>9. LastSequence(asked[e].request.conversation)' = LastSequence(c)
      BY <1>1 DEF LoadConversation, LastSequence, Sequences
    <3>10. Progress(e)'
      BY <1>1, <3>2, <3>3, <3>5, <3>6, <3>9 DEF IInv, Progress, Running, LoadConversation
    <3>11. Answered(e)'
      BY <3>3, <3>5, <3>6, CreationAssumption DEF IInv, Answered, Progress, Running, CreationAnswer
    <3> QED
      BY <3>7, <3>8, <3>10, <3>11 DEF IInv
  <2> QED
    BY <1>1, <2>1, <2>2 DEF LoadConversation
<1>2. ASSUME NEW e \in Exec, Refuse(e) PROVE IInv'
  BY <1>2, EndsWithout DEF Refuse, CreationAnswer
<1>3. ASSUME NEW e \in Exec, LookUp(e) PROVE IInv'
  <2>1. CASE Replay(e)
    BY <1>3, <2>1, Replays DEF LookUp
  <2>2. CASE creation' = [creation EXCEPT ![e].pc = "writing"]
    BY <1>3, <2>2, GoesOn DEF LookUp, Running, IInv, CreationTypeOK
  <2> QED
    BY <1>3, <2>1, <2>2 DEF LookUp
<1>4. ASSUME NEW e \in Exec, Write(e) PROVE IInv'
  <2>1. CASE ~Clashes(e) /\ StoreTask(e) /\ Respond(e, "CREATED", e)
    <3>1. /\ creation' \in [Exec -> Creation]
          /\ creation'[e].pc = "answered" /\ creation'[e].answer = "CREATED" /\ creation'[e].named = e
          /\ \A f \in Exec \ {e} : creation'[f] = creation[f]
      BY <2>1, Responded DEF IInv, CreationTypeOK, CreationAnswer
    <3> QED
      BY <1>4, <2>1, <3>1, Stores DEF Write, IInv, CreationTypeOK
  <2>2. CASE Clashes(e) /\ creation' = [creation EXCEPT ![e].pc = "rereading"]
             /\ UNCHANGED <<tasks, idem, messages>>
    BY <1>4, <2>2, GoesOn DEF Write, Running, IInv, CreationTypeOK
  <2> QED
    BY <1>4, <2>1, <2>2 DEF Write
<1>5. ASSUME NEW e \in Exec, Reread(e) PROVE IInv'
  <2>1. CASE Replay(e)
    BY <1>5, <2>1, Replays DEF Reread
  <2>2. CASE Respond(e, "CONFLICT", Unset)
    BY <1>5, <2>2, EndsWithout DEF Reread, CreationAnswer
  <2> QED
    BY <1>5, <2>1, <2>2 DEF Reread
<1>6. ASSUME NEW e \in Exec, LoseExecution(e) PROVE IInv'
  <2>1. losses' \in 0..MaxLosses
    BY <1>6, CreationAssumption DEF LoseExecution, IInv, CreationTypeOK
  <2>2. CASE UNCHANGED <<tasks, idem, messages>>
    BY <1>6, <2>1, <2>2, GoesOn DEF LoseExecution, Running
  <2>3. CASE creation[e].pc = "writing" /\ ~Clashes(e) /\ StoreTask(e)
    <3>1. /\ creation' \in [Exec -> Creation]
          /\ creation'[e].pc = "lost"
          /\ creation'[e].answer = creation[e].answer /\ creation'[e].named = creation[e].named
          /\ \A f \in Exec \ {e} : creation'[f] = creation[f]
      BY <1>6, Moved DEF LoseExecution, IInv, CreationTypeOK
    <3>2. creation[e].answer = Unset /\ creation[e].named = Unset
      BY <2>3 DEF IInv, Progress, Running
    <3>3. creation'[e].answer # "REUSED" /\ creation'[e].named \in {e, Unset}
      BY <3>1, <3>2, CreationAssumption DEF CreationAnswer
    <3> QED
      BY <1>6, <2>1, <2>3, <3>1, <3>3, Stores DEF LoseExecution
  <2> QED
    BY <1>6, <2>2, <2>3 DEF LoseExecution
<1>7. CASE UNCHANGED creationVars
  <2>1. \A f \in Exec : Progress(f)' /\ Answered(f)'
    BY <1>7, StandsStill DEF IInv, creationVars
  <2>2. CreationTypeOK' /\ OneTaskPerKey' /\ Numbered'
    BY <1>7, TablesStill DEF IInv, creationVars, CreationTypeOK
  <2> QED
    BY <2>1, <2>2 DEF IInv
<1> QED
  BY <1>1, <1>2, <1>3, <1>4, <1>5, <1>6, <1>7 DEF CreationNext

\* In every reachable state the invariant holds.
THEOREM Invariant == CreationSpec => []IInv
BY InitInvariant, NextInvariant, PTL DEF CreationSpec

-----------------------------------------------------------------------------
(* The properties. *)

\* Every variable keeps its type: rows, requests, executions and the fault bound
\* (the tables of task_models.py).
THEOREM TypeCorrect == CreationSpec => []CreationTypeOK
BY Invariant, PTL DEF IInv

\* One key makes one task, and no task is without its idempotency row and query
\* message (add_task_creation).
THEOREM KeysMakeOneTask == CreationSpec => []OneTaskPerKey
BY Invariant, PTL DEF IInv

\* Whoever is answered with a task gets the one stored for his key and request
\* (TaskCreationTransactionService.execute, _replay).
THEOREM AnswersAreSafe == CreationSpec => []AnswersNameTheTask
<1>1. IInv => AnswersNameTheTask
  <2> SUFFICES ASSUME IInv, NEW e \in Exec
               PROVE  /\ creation[e].named # Unset =>
                           /\ \E t \in tasks :
                                /\ t.id = creation[e].named
                                /\ t.owner = asked[e].actor
                                /\ t.request = asked[e].request
                           /\ \A f \in Exec :
                                creation[f].named # Unset /\ asked[f].actor = asked[e].actor
                                  /\ asked[f].key = asked[e].key => creation[f].named = creation[e].named
                      /\ creation[e].answer = "REUSED" =>
                           \E i \in idem :
                             /\ i.actor = asked[e].actor /\ i.key = asked[e].key
                             /\ i.request # asked[e].request
    BY DEF AnswersNameTheTask
  <2>1. \A f \in Exec : Answered(f)
    BY DEF IInv
  <2>2. ASSUME creation[e].named # Unset
        PROVE  \E t \in tasks : t.id = creation[e].named /\ t.owner = asked[e].actor
                 /\ t.request = asked[e].request
    BY <2>1, <2>2 DEF IInv, Answered, OneTaskPerKey
  <2>3. ASSUME creation[e].named # Unset, NEW f \in Exec, creation[f].named # Unset,
               asked[f].actor = asked[e].actor, asked[f].key = asked[e].key
        PROVE  creation[f].named = creation[e].named
    BY <2>1, <2>3 DEF IInv, Answered, OneTaskPerKey
  <2> QED
    BY <2>1, <2>2, <2>3 DEF Answered
<1> QED
  BY <1>1, Invariant, PTL

\* The messages of a conversation are numbered without gap or repetition
\* (_next_message_sequence, uq_conversation_message_active_revision).
THEOREM NumbersInOrder == CreationSpec => []MessagesInOrder
<1>1. IInv => MessagesInOrder
  BY LastIsNat DEF IInv, MessagesInOrder, Numbered
<1> QED
  BY <1>1, Invariant, PTL

\* A conflict leaves the key free and is another message's success
\* (the except branch of TaskCreationTransactionService.execute).
THEOREM ConflictsAreRetryable == CreationSpec => ConflictIsRetryable
<1>1. ASSUME IInv, [CreationNext]_creationVars, NEW e \in Exec,
             creation[e].answer = Unset, creation'[e].answer = "CONFLICT"
      PROVE  Reread(e) /\ Entries(e) = {}
  <2>1. Unset # "CONFLICT" /\ creation \in [Exec -> Creation]
    BY <1>1, CreationAssumption DEF CreationAnswer, IInv, CreationTypeOK
  <2>2. ~ UNCHANGED creationVars
    BY <1>1, <2>1 DEF creationVars
  <2>3. PICK d \in Exec : LoadConversation(d) \/ Refuse(d) \/ LookUp(d) \/ Write(d)
                            \/ Reread(d) \/ LoseExecution(d)
    BY <1>1, <2>2 DEF CreationNext
  <2>4. ASSUME NEW a \in CreationAnswer, NEW t \in Exec \union {Unset}, Respond(d, a, t)
        PROVE  d = e /\ a = "CONFLICT"
    BY <1>1, <2>1, <2>4, Responded
  <2>5. ASSUME NEW p \in {"writing", "rereading", "lost"}, creation' = [creation EXCEPT ![d].pc = p]
        PROVE  FALSE
    BY <1>1, <2>1, <2>5, Moved
  <2>6. ~ Replay(d)
    <3> SUFFICES ASSUME NEW i \in Entries(d),
                        Respond(d, "REPLAYED", i.task) \/ Respond(d, "REUSED", Unset)
                 PROVE  FALSE
      BY DEF Replay
    <3>1. i.task \in Exec
      BY <1>1 DEF IInv, CreationTypeOK, Entries, Entry
    <3>2. "REPLAYED" \in CreationAnswer /\ "REUSED" \in CreationAnswer
      BY DEF CreationAnswer
    <3> QED
      BY <2>4, <3>1, <3>2
  <2>7. ~ LoadConversation(d)
    <3> SUFFICES ASSUME LoadConversation(d) PROVE FALSE
      OBVIOUS
    <3>1. CASE Respond(d, "NOT_FOUND", Unset)
      BY <2>4, <3>1 DEF CreationAnswer
    <3>2. ASSUME NEW s, creation' = [creation EXCEPT ![d].pc = "loaded", ![d].sequence = s] PROVE FALSE
      <4> DEFINE new == [creation[d] EXCEPT !.pc = "loaded", !.sequence = s]
      <4>1. creation' = [creation EXCEPT ![d] = new]
        BY <3>2
      <4>2. new.answer = creation[d].answer
        BY <2>1 DEF Creation
      <4> HIDE DEF new
      <4> QED
        BY <1>1, <2>1, <4>1, <4>2
    <3> QED
      BY <3>1, <3>2 DEF LoadConversation
  <2>8. ~ Refuse(d)
    BY <2>4 DEF Refuse, CreationAnswer
  <2>9. ~ LookUp(d)
    BY <2>5, <2>6 DEF LookUp
  <2>10. ~ Write(d)
    BY <2>4, <2>5 DEF Write, CreationAnswer
  <2>11. ~ LoseExecution(d)
    BY <2>5 DEF LoseExecution
  <2>12. Reread(d) /\ Entries(d) = {} /\ Respond(d, "CONFLICT", Unset)
    BY <2>3, <2>6, <2>7, <2>8, <2>9, <2>10, <2>11 DEF Reread
  <2>13. d = e
    BY <2>4, <2>12 DEF CreationAnswer
  <2> QED
    BY <2>12, <2>13
<1> DEFINE Step == \A e \in Exec : creation[e].answer = Unset /\ creation'[e].answer = "CONFLICT" =>
                     /\ Entries(e)' = {}
                     /\ LastSequence(asked[e].request.conversation)' >= creation[e].sequence
                     /\ \A t \in tasks' : t.id # e
<1>2. ASSUME IInv, [CreationNext]_creationVars PROVE Step
  <2> SUFFICES ASSUME NEW e \in Exec, creation[e].answer = Unset, creation'[e].answer = "CONFLICT"
               PROVE  /\ Entries(e)' = {}
                      /\ LastSequence(asked[e].request.conversation)' >= creation[e].sequence
                      /\ \A t \in tasks' : t.id # e
    OBVIOUS
  <2>1. Reread(e) /\ Entries(e) = {}
    BY <1>1, <1>2
  <2>2. PICK c : c = asked[e].request.conversation
    OBVIOUS
  <2>3. LastSequence(c) \in Nat /\ creation[e].sequence \in Nat
    BY <1>2, <2>2, LastIsNat DEF IInv, CreationTypeOK, Order, Request, Creation
  <2>4. creation[e].sequence <= LastSequence(c) /\ \A t \in tasks : t.id # e
    BY <1>2, <2>1, <2>2 DEF IInv, Progress, Reread, Running
  <2>5. UNCHANGED <<asked, tasks, idem, messages>>
    BY <2>1 DEF Reread
  <2>6. /\ Entries(e)' = Entries(e)
        /\ LastSequence(asked[e].request.conversation)' = LastSequence(c)
    BY <2>2, <2>5 DEF Entries, LastSequence, Sequences
  <2> QED
    BY <2>1, <2>3, <2>4, <2>5, <2>6
<1> HIDE DEF Step
<1>3. IInv /\ [CreationNext]_creationVars => [Step]_creationVars
  BY <1>2
<1>4. ConflictIsRetryable <=> [][Step]_creationVars
  BY PTL DEF ConflictIsRetryable, Step
<1> QED
  BY <1>3, <1>4, Invariant, PTL DEF CreationSpec
=============================================================================
