--------------------------- MODULE IngressProofs ----------------------------
(***************************************************************************)
(* Proofs about Ingress, for every set of requests, keys, events and       *)
(* probes and every number of outages.                                     *)
(***************************************************************************)
EXTENDS Ingress, FiniteSetTheorems, TLAPS

(***************************************************************************)
(* The inductive invariant.                                                *)
(***************************************************************************)
\* An accepted event was drawn for a request and is in the stream.
StoredInv ==
    \A e \in Events : IsAccepted(e) =>
        owner[e] # Nobody /\ \E i \in DOMAIN stream : stream[i].event = e

\* The event id a request drew is its own, and not stored before its script.
DrawnInv ==
    \A r \in Requests :
        /\ uuid[r] # NoEvent => owner[uuid[r]] = r
        /\ pc[r] = "storing" => uuid[r] # NoEvent /\ ~IsAccepted(uuid[r])

\* The mapping and the events with a key name each other.
MapInv ==
    /\ \A e \in Events : IsAccepted(e) /\ KeyOf[owner[e]] # NoKey => idem[KeyOf[owner[e]]].event = e
    /\ \A k \in Keys : idem[k] # Unmapped => IsAccepted(idem[k].event)

\* What an answer says is in the store.
AnswerInv ==
    \A r \in Requests :
        /\ answer[r].code = 202 =>
             /\ answer[r].event \in Events
             /\ IsAccepted(answer[r].event)
             /\ KeyOf[r] # NoKey =>
                  idem[KeyOf[r]] = [event |-> answer[r].event, content |-> ContentOf[r]]
        /\ answer[r].code = 409 =>
             KeyOf[r] # NoKey /\ idem[KeyOf[r]] # Unmapped /\ idem[KeyOf[r]].content # ContentOf[r]

Busy == {r \in Requests : pc[r] \in {"admitted", "storing"}}

\* Requests under way are finitely many, even of infinitely many clients.
DrainInv ==
    /\ IsFiniteSet(Busy)
    /\ inFlight = Cardinality(Busy)
    /\ drained <=> inFlight = 0

IInv == TypeOK /\ StoredInv /\ DrawnInv /\ MapInv /\ AnswerInv /\ DrainInv

USE DEF IsAccepted

(***************************************************************************)
(* What a step does to the requests and their events: nothing but to their *)
(* labels, an answer without an effect, the drawing of an event id, or the *)
(* script, whose answer may be lost.                                       *)
(***************************************************************************)
dataVars == <<storeVars, idem, owner, uuid>>

Quiet ==
    /\ UNCHANGED <<dataVars, answer>>
    /\ \A r \in Requests : pc'[r] = "storing" => pc[r] = "storing"

Fails(r, code) ==
    /\ UNCHANGED dataVars
    /\ Answer(r, Failed(code))

Draws(r, e) ==
    /\ owner[e] = Nobody
    /\ owner' = [owner EXCEPT ![e] = r]
    /\ uuid' = [uuid EXCEPT ![r] = e]
    /\ pc' = [pc EXCEPT ![r] = "storing"]
    /\ UNCHANGED <<storeVars, idem, answer>>

Runs(r) ==
    /\ pc[r] = "storing"
    /\ IdempotentEnqueue(r)
    /\ Answer(r, Decision(r)) \/ Answer(r, Failed(503))
    /\ UNCHANGED <<owner, uuid>>

DataOp ==
    \/ Quiet
    \/ \E r \in Requests : Fails(r, 422) \/ Fails(r, 503)
    \/ \E r \in Requests, e \in Events : Draws(r, e)
    \/ \E r \in Requests : Runs(r)

\* Every step is one of these.
LEMMA DataSteps ==
    ASSUME TypeOK, [Next]_vars
    PROVE  DataOp
<1> USE DEF TypeOK, dataVars
<1>1. CASE UNCHANGED <<dataVars, answer, pc>>
  BY <1>1 DEF DataOp, Quiet
<1>2. CASE Startup \/ Shutdown \/ Close \/ Outage \/ Recovery
  BY <1>1, <1>2 DEF Startup, Shutdown, Close, Outage, Recovery, requestVars
<1>3. ASSUME NEW p \in Probes, Ask(p) \/ Ping(p) \/ Apply(p)
      PROVE  DataOp
  BY <1>1, <1>3 DEF Ask, Ping, Apply, requestVars
<1>4. ASSUME NEW r \in Requests, Admit(r) \/ Resend(r)
      PROVE  DataOp
  BY <1>4 DEF Admit, Resend, DataOp, Quiet
<1>5. ASSUME NEW r \in Requests, Reject(r) \/ Invalid(r) \/ NotStored(r) \/ Abort(r)
      PROVE  DataOp
  BY <1>5 DEF Reject, Invalid, NotStored, Abort, DataOp, Fails
<1>6. ASSUME NEW r \in Requests, Handle(r)
      PROVE  DataOp
  <2>1. PICK e \in Events : /\ owner[e] = Nobody
                            /\ owner' = [owner EXCEPT ![e] = r]
                            /\ uuid' = [uuid EXCEPT ![r] = e]
    BY <1>6 DEF Handle
  <2>2. Draws(r, e)
    BY <1>6, <2>1 DEF Handle, Draws
  <2> QED BY <2>2 DEF DataOp
<1>7. ASSUME NEW r \in Requests, Stored(r) \/ StoredUnheard(r)
      PROVE  DataOp
  BY <1>7 DEF Stored, StoredUnheard, DataOp, Runs
<1>8. CASE UNCHANGED vars
  BY <1>1, <1>8 DEF vars, requestVars
<1> QED BY <1>2, <1>3, <1>4, <1>5, <1>6, <1>7, <1>8 DEF Next, Serve

(***************************************************************************)
(* What the script leaves of the store's state, by whether it creates.     *)
(***************************************************************************)
\* A request that creates stores its own fresh event at the end of the stream
\* and, if it has a key, the key's mapping.
LEMMA Created ==
    ASSUME TypeOK, DrawnInv, NEW r \in Requests, Runs(r), Creates(r)
    PROVE  /\ uuid[r] \in Events /\ ~IsAccepted(uuid[r]) /\ owner[uuid[r]] = r
           /\ status' = [status EXCEPT ![uuid[r]] = "queued"]
           /\ stream' = Append(stream, [event |-> uuid[r], form |-> "parsable"])
           /\ UNCHANGED <<owner, uuid>>
           /\ KeyOf[r] = NoKey => idem' = idem
           /\ KeyOf[r] # NoKey =>
                /\ KeyOf[r] \in Keys /\ idem[KeyOf[r]] = Unmapped
                /\ idem' = [idem EXCEPT ![KeyOf[r]] = [event |-> uuid[r], content |-> ContentOf[r]]]
<1>1. uuid[r] \in Events /\ ~IsAccepted(uuid[r]) /\ owner[uuid[r]] = r
  BY DEF TypeOK, DrawnInv, Runs
<1>2. Enqueue(uuid[r], "parsable") /\ UNCHANGED <<owner, uuid>>
  BY DEF Runs, IdempotentEnqueue
<1>3. KeyOf[r] \in Keys \cup {NoKey}
  BY KeyAssumption
<1> QED BY <1>1, <1>2, <1>3 DEF Enqueue, Creates, Runs, IdempotentEnqueue

\* Otherwise the script only reads.
LEMMA NotCreated ==
    ASSUME NEW r \in Requests, Runs(r), ~Creates(r)
    PROVE  UNCHANGED dataVars /\ KeyOf[r] \in Keys /\ idem[KeyOf[r]] # Unmapped
BY KeyAssumption DEF Runs, IdempotentEnqueue, Creates, dataVars

\* What appending does to the stream.
LEMMA AppendFacts ==
    ASSUME NEW S, NEW s \in Seq(S), NEW x \in S
    PROVE  /\ Append(s, x) \in Seq(S)
           /\ \A n \in DOMAIN s : n \in DOMAIN Append(s, x) /\ Append(s, x)[n] = s[n]
           /\ Len(s) + 1 \in DOMAIN Append(s, x)
           /\ Append(s, x)[Len(s) + 1] = x
OBVIOUS

\* An accepted event keeps its owner and its entry.
LEMMA StoredStep ==
    ASSUME TypeOK, StoredInv, DrawnInv, DataOp
    PROVE  StoredInv'
<1> USE DEF StoredInv
<1>1. CASE UNCHANGED dataVars
  BY <1>1 DEF dataVars, storeVars, hashVars
<1>2. ASSUME NEW r \in Requests, NEW e \in Events, Draws(r, e)
      PROVE  StoredInv'
  BY <1>2, NobodyAssumption DEF Draws, storeVars, hashVars, TypeOK
<1>3. ASSUME NEW r \in Requests, Runs(r)
      PROVE  StoredInv'
  <2>1. CASE Creates(r)
    <3> DEFINE x == [event |-> uuid[r], form |-> "parsable"]
    <3>1. uuid[r] \in Events /\ owner[uuid[r]] = r /\ UNCHANGED owner
          /\ status' = [status EXCEPT ![uuid[r]] = "queued"] /\ stream' = Append(stream, x)
      BY <1>3, <2>1, Created
    <3>2. x \in Entry /\ stream \in Seq(Entry) /\ x.event = uuid[r]
      BY <3>1 DEF Entry, TypeOK, StoreTypeOK
    <3> HIDE DEF x
    <3>3. /\ \A n \in DOMAIN stream : n \in DOMAIN stream' /\ stream'[n] = stream[n]
          /\ Len(stream) + 1 \in DOMAIN stream' /\ stream'[Len(stream) + 1] = x
      BY <3>1, <3>2, AppendFacts
    <3>4. \A e \in Events : IsAccepted(e)' => e = uuid[r] \/ IsAccepted(e)
      BY <3>1 DEF TypeOK, StoreTypeOK
    <3>5. owner[uuid[r]] # Nobody
      BY <3>1, NobodyAssumption
    <3> QED BY <3>1, <3>2, <3>3, <3>4, <3>5
  <2>2. CASE ~Creates(r)
    BY <1>1, <1>3, <2>2, NotCreated
  <2> QED BY <2>1, <2>2
<1> QED BY <1>1, <1>2, <1>3 DEF DataOp, Quiet, Fails

\* An event id is drawn once, and stored by the request that drew it only.
LEMMA DrawnStep ==
    ASSUME TypeOK, StoredInv, DrawnInv, DataOp
    PROVE  DrawnInv'
<1> USE NoEventAssumption DEF DrawnInv
<1>1. CASE Quiet
  BY <1>1 DEF Quiet, dataVars, storeVars, hashVars
<1>2. ASSUME NEW r \in Requests, NEW code, UNCHANGED dataVars, Answer(r, code)
      PROVE  DrawnInv'
  BY <1>2 DEF dataVars, storeVars, hashVars, Answer, TypeOK
<1>3. ASSUME NEW r \in Requests, NEW e \in Events, Draws(r, e)
      PROVE  DrawnInv'
  <2>1. ~IsAccepted(e)' /\ UNCHANGED status /\ e # NoEvent
    BY <1>3 DEF Draws, StoredInv, storeVars, hashVars
  <2>2. /\ owner' = [owner EXCEPT ![e] = r] /\ uuid' = [uuid EXCEPT ![r] = e]
        /\ pc' = [pc EXCEPT ![r] = "storing"] /\ owner[e] = Nobody
    BY <1>3 DEF Draws
  <2>3. \A s \in Requests : uuid[s] # NoEvent => owner[uuid[s]] = s /\ uuid[s] # e
    BY <2>2, NobodyAssumption
  <2> QED BY <2>1, <2>2, <2>3 DEF TypeOK
<1>4. ASSUME NEW r \in Requests, Runs(r)
      PROVE  DrawnInv'
  <2>0. pc' = [pc EXCEPT ![r] = "answered"]
    BY <1>4 DEF Runs, Answer
  <2>1. CASE Creates(r)
    <3>1. /\ uuid[r] \in Events /\ owner[uuid[r]] = r /\ UNCHANGED <<owner, uuid>>
          /\ status' = [status EXCEPT ![uuid[r]] = "queued"]
      BY <1>4, <2>1, Created
    <3> QED BY <2>0, <3>1 DEF TypeOK, StoreTypeOK
  <2>2. CASE ~Creates(r)
    BY <1>2, <1>4, <2>2, NotCreated DEF Runs
  <2> QED BY <2>1, <2>2
<1> QED BY <1>1, <1>2, <1>3, <1>4 DEF DataOp, Fails

\* A key is mapped once, to the event its first request stores.
LEMMA MapStep ==
    ASSUME TypeOK, StoredInv, DrawnInv, MapInv, DataOp
    PROVE  MapInv'
<1> USE NoEventAssumption, KeyAssumption DEF MapInv
<1>1. CASE UNCHANGED dataVars
  BY <1>1 DEF dataVars, storeVars, hashVars
<1>2. ASSUME NEW r \in Requests, NEW e \in Events, Draws(r, e)
      PROVE  MapInv'
  <2>1. ~IsAccepted(e) /\ UNCHANGED <<status, idem>> /\ owner' = [owner EXCEPT ![e] = r]
    BY <1>2 DEF Draws, StoredInv, storeVars, hashVars
  <2> QED BY <2>1 DEF TypeOK
<1>3. ASSUME NEW r \in Requests, Runs(r)
      PROVE  MapInv'
  <2>1. CASE Creates(r)
    <3>1. /\ uuid[r] \in Events /\ owner[uuid[r]] = r /\ UNCHANGED owner
          /\ status' = [status EXCEPT ![uuid[r]] = "queued"]
      BY <1>3, <2>1, Created
    <3>2. CASE KeyOf[r] = NoKey
      <4>1. UNCHANGED idem
        BY <1>3, <2>1, <3>2, Created
      <4> QED BY <3>1, <3>2, <4>1 DEF TypeOK, StoreTypeOK, Unmapped
    <3>3. CASE KeyOf[r] # NoKey
      <4>1. /\ KeyOf[r] \in Keys /\ idem[KeyOf[r]] = Unmapped
            /\ idem' = [idem EXCEPT ![KeyOf[r]] = [event |-> uuid[r], content |-> ContentOf[r]]]
        BY <1>3, <2>1, <3>3, Created
      <4>2. \A e \in Events : IsAccepted(e) => owner[e] \in Requests
        BY DEF StoredInv, TypeOK
      <4>3. \A e \in Events : IsAccepted(e) => KeyOf[owner[e]] # KeyOf[r]
        BY <3>3, <4>1 DEF Unmapped
      <4>4. \A e \in Events : status'[e] # "none" => e = uuid[r] \/ IsAccepted(e)
        BY <3>1 DEF TypeOK, StoreTypeOK
      <4>5. \A e \in Events : IsAccepted(e) => status'[e] # "none"
        BY <3>1 DEF TypeOK, StoreTypeOK
      <4>6. status'[uuid[r]] # "none"
        BY <3>1 DEF TypeOK, StoreTypeOK
      <4>7. ASSUME NEW e \in Events, status'[e] # "none", KeyOf[owner'[e]] # NoKey
            PROVE  idem'[KeyOf[owner'[e]]].event = e
        <5>1. CASE e = uuid[r]
          BY <3>1, <4>1, <5>1 DEF TypeOK
        <5>2. CASE IsAccepted(e)
          <6>1. KeyOf[owner[e]] \in Keys /\ KeyOf[owner[e]] # KeyOf[r]
            BY <3>1, <4>2, <4>3, <4>7, <5>2
          <6> QED BY <3>1, <4>1, <4>7, <5>2, <6>1 DEF TypeOK
        <5> QED BY <4>4, <4>7, <5>1, <5>2
      <4>8. ASSUME NEW k \in Keys, idem'[k] # Unmapped
            PROVE  status'[idem'[k].event] # "none"
        <5>1. CASE k = KeyOf[r]
          BY <4>1, <4>6, <5>1 DEF TypeOK
        <5>2. CASE k # KeyOf[r]
          <6>1. idem'[k] = idem[k] /\ idem[k].event \in Events
            BY <4>1, <4>8, <5>2 DEF TypeOK
          <6> QED BY <4>5, <4>8, <6>1
        <5> QED BY <5>1, <5>2
      <4> QED BY <4>7, <4>8
    <3> QED BY <3>2, <3>3
  <2>2. CASE ~Creates(r)
    BY <1>1, <1>3, <2>2, NotCreated
  <2> QED BY <2>1, <2>2
<1> QED BY <1>1, <1>2, <1>3 DEF DataOp, Quiet, Fails

\* An answer once given stays true of the store.
LEMMA AnswerStep ==
    ASSUME TypeOK, StoredInv, DrawnInv, MapInv, AnswerInv, DataOp
    PROVE  AnswerInv'
<1> USE KeyAssumption
<1> DEFINE Told(r) ==
      /\ answer[r].code = 202 =>
           /\ answer[r].event \in Events
           /\ IsAccepted(answer[r].event)
           /\ KeyOf[r] # NoKey =>
                idem[KeyOf[r]] = [event |-> answer[r].event, content |-> ContentOf[r]]
      /\ answer[r].code = 409 =>
           KeyOf[r] # NoKey /\ idem[KeyOf[r]] # Unmapped /\ idem[KeyOf[r]].content # ContentOf[r]
<1>0. \A r \in Requests : Told(r)
  BY DEF AnswerInv
<1>1. ASSUME NEW r \in Requests, NEW code \in {422, 503}, UNCHANGED dataVars, Answer(r, Failed(code))
      PROVE  AnswerInv'
  <2>1. UNCHANGED <<status, idem>>
    BY <1>1 DEF dataVars, storeVars, hashVars
  <2>2. answer'[r].code = code /\ \A s \in Requests : s # r => answer'[s] = answer[s]
    BY <1>1 DEF Answer, Failed, TypeOK
  <2>3. Told(r)'
    BY <1>1, <2>2
  <2>4. \A s \in Requests : s # r => Told(s)'
    BY <1>0, <2>1, <2>2
  <2> QED BY <2>3, <2>4 DEF AnswerInv
<1>2. CASE Quiet
  BY <1>0, <1>2 DEF AnswerInv, Quiet, dataVars, storeVars, hashVars
<1>3. ASSUME NEW r \in Requests, NEW e \in Events, Draws(r, e)
      PROVE  AnswerInv'
  BY <1>0, <1>3 DEF AnswerInv, Draws, storeVars, hashVars
<1>4. ASSUME NEW r \in Requests, Runs(r)
      PROVE  AnswerInv'
  <2>1. CASE Creates(r)
    <3>1. /\ uuid[r] \in Events /\ status' = [status EXCEPT ![uuid[r]] = "queued"]
          /\ KeyOf[r] = NoKey => idem' = idem
          /\ KeyOf[r] # NoKey =>
                /\ KeyOf[r] \in Keys /\ idem[KeyOf[r]] = Unmapped
                /\ idem' = [idem EXCEPT ![KeyOf[r]] = [event |-> uuid[r], content |-> ContentOf[r]]]
      BY <1>4, <2>1, Created
    <3>2. /\ answer' = [answer EXCEPT ![r] = Accepted202(uuid[r])]
             \/ answer' = [answer EXCEPT ![r] = Failed(503)]
      BY <1>4, <2>1 DEF Runs, Answer, Decision
    <3>3. \A e \in Events : IsAccepted(e) => status'[e] # "none"
      BY <3>1 DEF TypeOK, StoreTypeOK
    <3>4. status'[uuid[r]] # "none"
      BY <3>1 DEF TypeOK, StoreTypeOK
    \* Who was told 202 or 409 under a key was told so by a mapping that is
    \* there, and this request found none.
    <3>5. \A s \in Requests :
             KeyOf[s] # NoKey /\ answer[s].code \in {202, 409} => idem'[KeyOf[s]] = idem[KeyOf[s]]
      <4> SUFFICES ASSUME NEW s \in Requests, KeyOf[s] # NoKey, answer[s].code \in {202, 409}
                   PROVE  idem'[KeyOf[s]] = idem[KeyOf[s]]
        OBVIOUS
      <4>1. KeyOf[s] \in Keys
        OBVIOUS
      <4>2. idem[KeyOf[s]] # Unmapped
        <5>1. CASE answer[s].code = 202
          <6>1. answer[s].event \in Events /\ idem[KeyOf[s]].event = answer[s].event
            <7>1. idem[KeyOf[s]] = [event |-> answer[s].event, content |-> ContentOf[s]]
                  /\ answer[s].event \in Events
              BY <1>0, <5>1
            <7> QED BY <7>1
          <6> QED BY <6>1, NoEventAssumption DEF Unmapped
        <5>2. CASE answer[s].code = 409
          BY <1>0, <5>2
        <5> QED BY <5>1, <5>2
      <4> QED BY <3>1, <4>1, <4>2 DEF TypeOK
    <3>6. ASSUME NEW s \in Requests, s # r
          PROVE  Told(s)'
      <4>1. answer'[s] = answer[s]
        BY <3>2, <3>6 DEF TypeOK
      <4> QED BY <1>0, <3>3, <3>5, <4>1
    <3>7. Told(r)'
      <4>1. CASE answer' = [answer EXCEPT ![r] = Failed(503)]
        <5>1. answer'[r].code = 503
          BY <4>1 DEF TypeOK, Failed
        <5> QED BY <5>1
      <4>2. CASE answer' = [answer EXCEPT ![r] = Accepted202(uuid[r])]
        <5>1. answer'[r].code = 202 /\ answer'[r].event = uuid[r]
          BY <4>2 DEF TypeOK, Accepted202
        <5>2. KeyOf[r] # NoKey => idem'[KeyOf[r]] = [event |-> uuid[r], content |-> ContentOf[r]]
          BY <3>1 DEF TypeOK
        <5> QED BY <3>1, <3>4, <5>1, <5>2
      <4> QED BY <3>2, <4>1, <4>2
    <3> QED BY <3>6, <3>7 DEF AnswerInv
  <2>2. CASE ~Creates(r)
    <3>1. UNCHANGED dataVars /\ KeyOf[r] \in Keys /\ idem[KeyOf[r]] # Unmapped
      BY <1>4, <2>2, NotCreated
    <3>2. UNCHANGED <<status, idem>>
      BY <3>1 DEF dataVars, storeVars, hashVars
    <3>3. Answer(r, Failed(503)) => AnswerInv'
      BY <1>1, <3>1
    <3>4. CASE idem[KeyOf[r]].content = ContentOf[r] /\ Answer(r, Accepted202(idem[KeyOf[r]].event))
      <4>1. IsAccepted(idem[KeyOf[r]].event)
        BY <3>1 DEF MapInv
      <4>2. /\ idem[KeyOf[r]].event \in Events
            /\ idem[KeyOf[r]] = [event |-> idem[KeyOf[r]].event, content |-> ContentOf[r]]
        BY <3>1, <3>4 DEF TypeOK
      <4>3. answer'[r].code = 202 /\ answer'[r].event = idem[KeyOf[r]].event
        BY <3>4 DEF Answer, Accepted202, TypeOK
      <4>4. \A s \in Requests : s # r => answer'[s] = answer[s]
        BY <3>4 DEF Answer, TypeOK
      <4>5. Told(r)'
        BY <3>2, <4>1, <4>2, <4>3
      <4>6. \A s \in Requests : s # r => Told(s)'
        BY <1>0, <3>2, <4>4
      <4> QED BY <4>5, <4>6 DEF AnswerInv
    <3>5. CASE idem[KeyOf[r]].content # ContentOf[r] /\ Answer(r, Failed(409))
      <4>1. answer'[r].code = 409 /\ \A s \in Requests : s # r => answer'[s] = answer[s]
        BY <3>5 DEF Answer, Failed, TypeOK
      <4>2. KeyOf[r] # NoKey
        BY <3>1
      <4>3. Told(r)'
        BY <3>1, <3>2, <3>5, <4>1, <4>2
      <4>4. \A s \in Requests : s # r => Told(s)'
        BY <1>0, <3>2, <4>1
      <4> QED BY <4>3, <4>4 DEF AnswerInv
    <3> QED BY <1>4, <2>2, <3>3, <3>4, <3>5 DEF Runs, Decision
  <2> QED BY <2>1, <2>2
<1> QED BY <1>1, <1>2, <1>3, <1>4 DEF DataOp, Fails

(***************************************************************************)
(* Types and the count of work in flight, action by action.                *)
(***************************************************************************)
\* The data part of the type invariant.
LEMMA DataTypeStep ==
    ASSUME TypeOK, DrawnInv, DataOp
    PROVE  /\ StoreTypeOK'
           /\ (idem \in [Keys -> [event : Events, content : Contents] \cup {Unmapped}])'
           /\ (owner \in [Events -> Requests \cup {Nobody}])'
           /\ (uuid \in [Requests -> Events \cup {NoEvent}])'
           /\ (answer \in [Requests -> [code : {0, 202, 409, 422, 503}, event : Events \cup {NoEvent}]])'
<1> DEFINE Answers == [code : {0, 202, 409, 422, 503}, event : Events \cup {NoEvent}]
           Mapped == [event : Events, content : Contents] \cup {Unmapped}
           DataOK == /\ StoreTypeOK
                     /\ idem \in [Keys -> Mapped]
                     /\ owner \in [Events -> Requests \cup {Nobody}]
                     /\ uuid \in [Requests -> Events \cup {NoEvent}]
<1>0. DataOK /\ answer \in [Requests -> Answers]
  BY DEF TypeOK
<1>1. UNCHANGED dataVars => DataOK'
  BY <1>0 DEF dataVars, storeVars, groupVars, hashVars, scheduleVars, StoreTypeOK
<1>2. ASSUME NEW r \in Requests, NEW a \in Answers, Answer(r, a)
      PROVE  answer' \in [Requests -> Answers]
  BY <1>0, <1>2 DEF Answer
<1>3. \A code \in {0, 202, 409, 422, 503} : Failed(code) \in Answers
  BY DEF Failed
<1>4. \A e \in Events : Accepted202(e) \in Answers
  BY DEF Accepted202
<1> HIDE DEF Answers
<1>5. Quiet => DataOK' /\ answer' \in [Requests -> Answers]
  BY <1>0, <1>1 DEF Quiet
<1>6. ASSUME NEW r \in Requests, Fails(r, 422) \/ Fails(r, 503)
      PROVE  DataOK' /\ answer' \in [Requests -> Answers]
  BY <1>1, <1>2, <1>3, <1>6 DEF Fails
<1>7. ASSUME NEW r \in Requests, NEW e \in Events, Draws(r, e)
      PROVE  DataOK' /\ answer' \in [Requests -> Answers]
  BY <1>0, <1>7 DEF Draws, storeVars, groupVars, hashVars, scheduleVars, StoreTypeOK
<1>8. ASSUME NEW r \in Requests, Runs(r)
      PROVE  DataOK' /\ answer' \in [Requests -> Answers]
  <2>1. CASE Creates(r)
    <3>1. /\ uuid[r] \in Events /\ UNCHANGED <<owner, uuid>>
          /\ KeyOf[r] = NoKey => idem' = idem
          /\ KeyOf[r] # NoKey =>
                /\ KeyOf[r] \in Keys
                /\ idem' = [idem EXCEPT ![KeyOf[r]] = [event |-> uuid[r], content |-> ContentOf[r]]]
      BY <1>8, <2>1, Created
    <3>2. StoreTypeOK'
      <4> DEFINE x == [event |-> uuid[r], form |-> "parsable"]
      <4>1. Enqueue(uuid[r], "parsable")
        BY <1>8, <2>1 DEF Runs, IdempotentEnqueue
      <4>2. x \in Entry /\ stream \in Seq(Entry)
        BY <1>0, <3>1 DEF Entry, StoreTypeOK
      <4>3. stream' = Append(stream, x)
        BY <4>1 DEF Enqueue
      <4> HIDE DEF x
      <4>4. stream' \in Seq(Entry) /\ Len(stream) + 1 \in Nat
        BY <4>2, <4>3
      <4> QED BY <1>0, <3>1, <4>1, <4>4 DEF Enqueue, StoreTypeOK, groupVars, scheduleVars, Open
    <3>3. idem' \in [Keys -> Mapped]
      <4>1. [event |-> uuid[r], content |-> ContentOf[r]] \in Mapped
        BY <3>1 DEF Contents
      <4> QED BY <1>0, <3>1, <4>1
    <3>4. answer' \in [Requests -> Answers]
      BY <1>2, <1>3, <1>4, <1>8, <2>1, <3>1 DEF Runs, Decision
    <3> QED BY <1>0, <3>1, <3>2, <3>3, <3>4
  <2>2. CASE ~Creates(r)
    <3>1. UNCHANGED dataVars /\ KeyOf[r] \in Keys /\ idem[KeyOf[r]] # Unmapped
      BY <1>8, <2>2, NotCreated
    <3>2. idem[KeyOf[r]].event \in Events
      BY <1>0, <3>1
    <3>3. Decision(r) \in Answers
      BY <1>3, <1>4, <2>2, <3>2 DEF Decision
    <3>4. answer' \in [Requests -> Answers]
      BY <1>2, <1>3, <1>8, <3>3 DEF Runs
    <3> QED BY <1>1, <3>1, <3>4
  <2> QED BY <2>1, <2>2
<1> QED BY <1>5, <1>6, <1>7, <1>8 DEF DataOp, Answers

\* Work that begins is counted, work that finishes is not counted any more.
LEMMA BeginCounts ==
    ASSUME TypeOK, DrainInv, NEW r \in Requests, pc[r] = "new", BeginWork,
           pc' = [pc EXCEPT ![r] = "admitted"]
    PROVE  DrainInv'
<1>1. Busy' = Busy \cup {r} /\ r \notin Busy
  BY DEF Busy, TypeOK
<1>2. IsFiniteSet(Busy') /\ Cardinality(Busy') = Cardinality(Busy) + 1
  BY <1>1, FS_AddElement DEF DrainInv
<1>3. Cardinality(Busy) \in Nat
  BY FS_CardinalityType DEF DrainInv
<1>4. inFlight' = inFlight + 1 /\ inFlight' = Cardinality(Busy') /\ inFlight' # 0
  BY <1>2, <1>3 DEF BeginWork, DrainInv
<1>5. ~drained'
  BY Zenon DEF BeginWork
<1> QED BY <1>2, <1>4, <1>5 DEF DrainInv

\* A handler that answers was counted in flight (finish_work).
LEMMA FinishCounts ==
    ASSUME TypeOK, DrainInv, NEW r \in Requests, r \in Busy, FinishWork,
           pc' = [pc EXCEPT ![r] = "answered"]
    PROVE  DrainInv'
<1>1. Busy' = Busy \ {r}
  BY DEF Busy, TypeOK
<1>2. IsFiniteSet(Busy') /\ Cardinality(Busy') = Cardinality(Busy) - 1
  BY <1>1, FS_RemoveElement DEF DrainInv
<1>3. inFlight \in Nat /\ inFlight > 0 /\ inFlight' = inFlight - 1 /\ inFlight' = Cardinality(Busy')
  BY <1>2 DEF FinishWork, DrainInv, TypeOK, HealthTypeOK
<1>4. drained' = IF inFlight = 1 THEN TRUE ELSE drained
  BY DEF FinishWork
<1>5. ~drained
  BY <1>3 DEF DrainInv
<1>6. drained' <=> inFlight = 1
  BY <1>4, <1>5, Zenon
<1> QED BY <1>2, <1>3, <1>6 DEF DrainInv

\* Whoever neither begins nor finishes work changes no busy request.
LEMMA CountKept ==
    ASSUME DrainInv, UNCHANGED workVars, Busy' = Busy
    PROVE  DrainInv'
BY DEF DrainInv, workVars

\* The rest of the type invariant and the drain, one step per action.
LEMMA ControlStep ==
    ASSUME TypeOK, DrainInv, [Next]_vars
    PROVE  /\ HealthTypeOK'
           /\ (phase \in {"starting", "serving", "draining", "closed"})'
           /\ (redisUp \in BOOLEAN)'
           /\ (outages \in 0 .. MaxOutages)'
           /\ (pc \in [Requests -> {"new", "admitted", "storing", "answered"}])'
           /\ (probe \in [Probes -> {"idle", "asked", "up", "down"}])'
           /\ DrainInv'
<1> DEFINE Labels == {"new", "admitted", "storing", "answered"}
           ControlOK == /\ HealthTypeOK
                        /\ phase \in {"starting", "serving", "draining", "closed"}
                        /\ redisUp \in BOOLEAN
                        /\ outages \in 0 .. MaxOutages
                        /\ pc \in [Requests -> Labels]
                        /\ probe \in [Probes -> {"idle", "asked", "up", "down"}]
           Goal == ControlOK' /\ DrainInv'
<1>0. ControlOK
  BY DEF TypeOK
<1>1. UNCHANGED <<workVars, pc>> => DrainInv'
  BY CountKept DEF Busy
<1>2. UNCHANGED healthVars => HealthTypeOK' /\ UNCHANGED workVars
  BY <1>0 DEF healthVars, workVars, HealthTypeOK
<1>3. ASSUME NEW r \in Requests, pc[r] = "new", BeginWork, pc' = [pc EXCEPT ![r] = "admitted"]
      PROVE  HealthTypeOK' /\ DrainInv' /\ pc' \in [Requests -> Labels]
  <2>1. DrainInv'
    BY <1>3, BeginCounts
  <2>2. inFlight' \in Nat /\ UNCHANGED flagVars
    BY <1>0, <1>3 DEF BeginWork, HealthTypeOK
  <2>3. drained' \in BOOLEAN
    BY <1>3, Zenon DEF BeginWork
  <2>4. HealthTypeOK'
    BY <1>0, <2>2, <2>3, Zenon DEF HealthTypeOK, flagVars
  <2> QED BY <1>0, <1>3, <2>1, <2>4
<1>4. ASSUME NEW r \in Requests, pc[r] \in {"admitted", "storing"}, FinishWork,
             pc' = [pc EXCEPT ![r] = "answered"]
      PROVE  HealthTypeOK' /\ DrainInv' /\ pc' \in [Requests -> Labels]
  <2>1. DrainInv'
    BY <1>4, FinishCounts DEF Busy
  <2>2. inFlight' \in Nat /\ UNCHANGED flagVars
    BY <1>0, <1>4 DEF FinishWork, HealthTypeOK
  <2>3. drained' \in BOOLEAN
    BY <1>0, <1>4, Zenon DEF FinishWork, HealthTypeOK
  <2>4. HealthTypeOK'
    BY <1>0, <2>2, <2>3, Zenon DEF HealthTypeOK, flagVars
  <2> QED BY <1>0, <1>4, <2>1, <2>4
<1>5. CASE Startup
  <2>1. started' = TRUE /\ dependencyReady' = redisUp /\ UNCHANGED <<shuttingDown, inFlight, drained>>
    BY <1>5 DEF Startup, MarkStarted, workVars
  <2>2. HealthTypeOK'
    BY <1>0, <2>1, Zenon DEF HealthTypeOK
  <2>3. UNCHANGED <<redisUp, outages, pc, probe, workVars>> /\ phase' = "serving"
    BY <1>5 DEF Startup, MarkStarted, requestVars
  <2> QED BY <1>0, <1>1, <2>2, <2>3
<1>6. CASE Shutdown
  <2>1. shuttingDown' = TRUE /\ UNCHANGED <<started, dependencyReady, inFlight, drained>>
    BY <1>6 DEF Shutdown, BeginShutdown, workVars
  <2>2. HealthTypeOK'
    BY <1>0, <2>1, Zenon DEF HealthTypeOK
  <2>3. UNCHANGED <<redisUp, outages, pc, probe, workVars>> /\ phase' = "draining"
    BY <1>6 DEF Shutdown, BeginShutdown, requestVars
  <2> QED BY <1>0, <1>1, <2>2, <2>3
<1>7. CASE Close
  <2>1. UNCHANGED <<healthVars, redisUp, outages, pc, probe>> /\ phase' = "closed"
    BY <1>7 DEF Close, requestVars
  <2> QED BY <1>0, <1>1, <1>2, <2>1
<1>8. ASSUME NEW r \in Requests, Reject(r)
      PROVE  Goal
  <2>1. /\ UNCHANGED <<healthVars, phase, redisUp, outages, probe>>
        /\ pc[r] = "new" /\ pc' = [pc EXCEPT ![r] = "answered"]
    BY <1>8 DEF Reject, Answer
  <2>2. Busy' = Busy
    BY <1>0, <2>1 DEF Busy
  <2> QED BY <1>0, <1>2, <2>1, <2>2, CountKept
<1>9. ASSUME NEW r \in Requests, Admit(r)
      PROVE  Goal
  BY <1>0, <1>3, <1>9 DEF Admit
<1>10. ASSUME NEW r \in Requests, Invalid(r) \/ Stored(r) \/ StoredUnheard(r) \/ NotStored(r) \/ Abort(r)
       PROVE  Goal
  <2>1. /\ UNCHANGED <<phase, redisUp, outages, probe>> /\ FinishWork
        /\ pc[r] \in {"admitted", "storing"} /\ pc' = [pc EXCEPT ![r] = "answered"]
    BY <1>10 DEF Invalid, Stored, StoredUnheard, NotStored, Abort, Answer
  <2> QED BY <1>0, <1>4, <2>1
<1>11. ASSUME NEW r \in Requests, Handle(r)
       PROVE  Goal
  <2>1. /\ UNCHANGED <<healthVars, phase, redisUp, outages, probe>>
        /\ pc[r] = "admitted" /\ pc' = [pc EXCEPT ![r] = "storing"]
    BY <1>11 DEF Handle
  <2>2. Busy' = Busy
    BY <1>0, <2>1 DEF Busy
  <2> QED BY <1>0, <1>2, <2>1, <2>2, CountKept
<1>12. ASSUME NEW r \in Requests, Resend(r)
       PROVE  Goal
  <2>1. /\ UNCHANGED <<healthVars, phase, redisUp, outages, probe>>
        /\ pc[r] = "answered" /\ pc' = [pc EXCEPT ![r] = "new"]
    BY <1>12 DEF Resend
  <2>2. Busy' = Busy
    BY <1>0, <2>1 DEF Busy
  <2> QED BY <1>0, <1>2, <2>1, <2>2, CountKept
<1>13. ASSUME NEW p \in Probes, Ask(p) \/ Ping(p)
       PROVE  Goal
  <2>1. /\ UNCHANGED <<healthVars, phase, redisUp, outages, pc>>
        /\ probe' \in [Probes -> {"idle", "asked", "up", "down"}]
    BY <1>0, <1>13 DEF Ask, Ping, requestVars
  <2> QED BY <1>0, <1>1, <1>2, <2>1
<1>14. ASSUME NEW p \in Probes, Apply(p)
       PROVE  Goal
  <2>1. /\ UNCHANGED <<started, shuttingDown, workVars, phase, redisUp, outages, pc>>
        /\ probe' = [probe EXCEPT ![p] = "idle"]
    BY <1>14 DEF Apply, SetDependencyReady, requestVars
  <2>2. dependencyReady' \in BOOLEAN
    BY <1>14, Zenon DEF Apply, SetDependencyReady
  <2>3. HealthTypeOK'
    BY <1>0, <2>1, <2>2, Zenon DEF HealthTypeOK, workVars
  <2> QED BY <1>0, <1>1, <2>1, <2>3
<1>15. CASE Outage
  <2>1. /\ UNCHANGED <<healthVars, phase, pc, probe>>
        /\ outages < MaxOutages /\ outages' = outages + 1
    BY <1>15 DEF Outage, requestVars
  <2>2. redisUp' \in BOOLEAN
    BY <1>15, Zenon DEF Outage
  <2>3. outages' \in 0 .. MaxOutages
    BY <1>0, <2>1, MaxOutagesAssumption
  <2> QED BY <1>0, <1>1, <1>2, <2>1, <2>2, <2>3
<1>16. CASE Recovery
  <2>1. UNCHANGED <<healthVars, phase, outages, pc, probe>>
    BY <1>16 DEF Recovery, requestVars
  <2>2. redisUp' \in BOOLEAN
    BY <1>16, Zenon DEF Recovery
  <2> QED BY <1>0, <1>1, <1>2, <2>1, <2>2
<1>17. CASE UNCHANGED vars
  <2>1. UNCHANGED <<healthVars, phase, redisUp, outages, pc, probe>>
    BY <1>17 DEF vars, requestVars
  <2> QED BY <1>0, <1>1, <1>2, <2>1
<1> QED
  BY <1>5, <1>6, <1>7, <1>8, <1>9, <1>10, <1>11, <1>12, <1>13, <1>14, <1>15, <1>16, <1>17
  DEF Next, Serve

(***************************************************************************)
(* The theorems.                                                           *)
(***************************************************************************)
\* IInv holds when the application has not started yet.
LEMMA InitInv == Init => IInv
<1> SUFFICES ASSUME Init PROVE IInv
  OBVIOUS
<1>1. StoreTypeOK
  BY DEF Init, StoreInit, StoreTypeOK, Entry, Filed, NoGroup
<1>2. HealthTypeOK
  BY Zenon DEF Init, HealthInit, HealthTypeOK
<1>3. /\ idem \in [Keys -> [event : Events, content : Contents] \cup {Unmapped}]
      /\ owner \in [Events -> Requests \cup {Nobody}]
      /\ uuid \in [Requests -> Events \cup {NoEvent}]
      /\ answer \in [Requests -> [code : {0, 202, 409, 422, 503}, event : Events \cup {NoEvent}]]
  BY DEF Init, Unanswered, Failed
<1>4. TypeOK
  BY <1>1, <1>2, <1>3, MaxOutagesAssumption DEF Init, TypeOK
<1>5. StoredInv /\ DrawnInv
  BY DEF Init, StoreInit, StoredInv, DrawnInv
<1>6. MapInv
  BY DEF Init, StoreInit, MapInv
<1>7. AnswerInv
  BY DEF Init, AnswerInv, Unanswered, Failed
<1>8. Busy = {}
  BY DEF Init, Busy
<1>9. IsFiniteSet(Busy) /\ Cardinality(Busy) = 0
  BY <1>8, FS_EmptySet
<1>10. inFlight = 0 /\ drained
  BY Zenon DEF Init, HealthInit
<1> QED BY <1>4, <1>5, <1>6, <1>7, <1>9, <1>10 DEF IInv, DrainInv

\* IInv is inductive.
LEMMA NextInv == IInv /\ [Next]_vars => IInv'
<1> SUFFICES ASSUME IInv, [Next]_vars PROVE IInv'
  OBVIOUS
<1>1. TypeOK /\ StoredInv /\ DrawnInv /\ MapInv /\ AnswerInv /\ DrainInv
  BY DEF IInv
<1>2. DataOp
  BY <1>1, DataSteps
<1>3. StoredInv' /\ DrawnInv' /\ MapInv' /\ AnswerInv'
  BY <1>1, <1>2, StoredStep, DrawnStep, MapStep, AnswerStep
<1>4. TypeOK' /\ DrainInv'
  BY <1>1, <1>2, DataTypeStep, ControlStep DEF TypeOK
<1> QED BY <1>3, <1>4 DEF IInv

\* Every reachable state satisfies the inductive invariant, and so is typed.
THEOREM Invariance == Spec => []IInv
<1> QED BY InitInv, NextInv, PTL DEF Spec

\* A 202 answer of accept_event names an event that is stored, in the stream
\* and, if there is a key, mapped: whatever failures, resends and shutdowns.
THEOREM AcceptedEventsAreStored == Spec => []AcceptedIsStored
<1>1. IInv => AcceptedIsStored
  BY DEF IInv, StoredInv, AnswerInv, AcceptedIsStored
<1> QED BY <1>1, Invariance, PTL

\* Requests with one Idempotency-Key create one event, however many race.
THEOREM KeysAreIdempotent == Spec => []OneEventPerKey
<1>1. IInv => OneEventPerKey
  BY DEF IInv, MapInv, OneEventPerKey
<1> QED BY <1>1, Invariance, PTL

\* A key answers for one content and one event; who gets 409 differs from it.
THEOREM KeysBindTheirContent == Spec => []KeyBindsContent
<1>1. IInv => KeyBindsContent
  <2> SUFFICES ASSUME IInv, NEW r \in Requests, NEW s \in Requests,
                      KeyOf[r] = KeyOf[s], KeyOf[r] # NoKey
               PROVE  /\ answer[r].code = 202 /\ answer[s].code = 202 =>
                           ContentOf[r] = ContentOf[s] /\ answer[r].event = answer[s].event
                      /\ answer[r].code = 409 => idem[KeyOf[r]].content # ContentOf[r]
    BY DEF KeyBindsContent
  <2>1. ASSUME NEW q \in {r, s}, answer[q].code = 202
        PROVE  idem[KeyOf[r]] = [event |-> answer[q].event, content |-> ContentOf[q]]
    BY <2>1 DEF IInv, AnswerInv
  <2>2. answer[r].code = 409 => idem[KeyOf[r]].content # ContentOf[r]
    BY DEF IInv, AnswerInv
  <2> QED BY <2>1, <2>2
<1> QED BY <1>1, Invariance, PTL

\* The in-flight count and the drain event are exact, for any number of
\* requests under way, so that wait_for_drain waits for all of them.
THEOREM TheDrainIsExact == Spec => []DrainIsExact
<1>1. IInv => DrainIsExact
  BY DEF IInv, DrainInv, Busy, DrainIsExact
<1> QED BY <1>1, Invariance, PTL
=============================================================================
