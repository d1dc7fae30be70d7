-------------------------- MODULE OfflineMailProofs --------------------------
(***************************************************************************)
(* Proofs about chat messages for any number of workers, sessions, uids,   *)
(* messages and logins.  MailInv is inductive; the safety properties       *)
(* follow from it, and with it every step of a worker is a step of the     *)
(* mailbox or none.                                                        *)
(***************************************************************************)
EXTENDS OfflineMail, TLAPS

-----------------------------------------------------------------------------
LEMMA InitMail == Init => MailInv
<1> SUFFICES ASSUME Init PROVE MailInv
  OBVIOUS
<1> USE MailAssumption DEF Init
<1>1. TypeOK
  BY DEF TypeOK, AnyUid, Message
<1>2. Written = {} /\ store \subseteq Written
  BY DEF Written
<1>3. HoldsByPc /\ InHandIsNew /\ SharedOnlyByDrains
  BY <1>2 DEF HoldsByPc, InHandIsNew, SharedOnlyByDrains, Chatting
<1>4. ReceivedIsSettled /\ AwayIsTried /\ RowsAreDrained
  BY <1>2 DEF ReceivedIsSettled, AwayIsTried, RowsAreDrained
<1> QED
  BY <1>1, <1>2, <1>3, <1>4 DEF MailInv

-----------------------------------------------------------------------------
(* What the invariant says of one worker.                                  *)

LEMMA WrittenFacts ==
  ASSUME TypeOK
  PROVE  /\ Written \subseteq Message /\ 0 \notin Message /\ 0 \notin Written
         /\ sent \in Nat
         /\ sent < MaxMessages => sent + 1 \in Message
BY MailAssumption DEF TypeOK, Written, Message

(* The message of a chat request is with its worker alone.                 *)
LEMMA AloneInHand ==
  ASSUME MailInv, NEW w \in Workers, pc[w] \in Chatting
  PROVE  /\ msg[w] \in Written /\ msg[w] \in Message
         /\ msg[w] \notin store /\ received[msg[w]] = 0
         /\ \A v \in Workers : msg[w] \notin rows[v]
         /\ \A v \in Workers \ {w} : msg[v] # msg[w]
<1>1. msg[w] \in Written /\ msg[w] \in Message
  BY WrittenFacts DEF MailInv, HoldsByPc
<1>2. msg[w] \notin store /\ received[msg[w]] = 0
  BY DEF MailInv, InHandIsNew
<1>3. rows[w] = {}
  BY DEF MailInv, HoldsByPc, Chatting
<1>4. pc[w] \notin Draining
  BY DEF Draining, Chatting
<1>5. ASSUME NEW v \in Workers \ {w}
      PROVE  msg[w] \notin rows[v] /\ msg[v] # msg[w]
  BY <1>1, <1>4 DEF MailInv, SharedOnlyByDrains, Has
<1> QED
  BY <1>1, <1>2, <1>3, <1>5

(* What a send does.                                                       *)
LEMMA SendFacts ==
  ASSUME TypeOK, NEW s, NEW m \in Message, SendTo(s, m)
  PROVE  /\ received' \in [Message -> Nat] /\ lost' \subseteq Message
         /\ \A n \in Message \ {m} : received'[n] = received[n]
         /\ received'[m] \in {received[m], received[m] + 1}
         /\ Tried' = Tried \cup {m}
<1> USE DEF TypeOK, SendTo
<1>1. received \in [Message -> Nat] /\ lost \subseteq Message
  OBVIOUS
<1>2. CASE state[s] = "open"
  <2>1. received' = [received EXCEPT ![m] = @ + 1] /\ lost' = lost
    BY <1>2
  <2>2. received'[m] = received[m] + 1 /\ received[m] \in Nat
    BY <1>1, <2>1
  <2>3. \A n \in Message \ {m} : received'[n] = received[n]
    BY <1>1, <2>1
  <2>4. received' \in [Message -> Nat]
    BY <1>1, <2>1, <2>2
  <2>5. Tried' = Tried \cup {m}
    BY <2>1, <2>2, <2>3 DEF Tried
  <2> QED
    BY <1>1, <2>1, <2>2, <2>3, <2>4, <2>5
<1>3. CASE state[s] # "open"
  <2>1. received' = received /\ lost' = lost \cup {m}
    BY <1>3
  <2> QED
    BY <1>1, <2>1 DEF Tried
<1> QED
  BY <1>2, <1>3

(* What a worker that is done leaves behind.                               *)
LEMMA ReturnFacts ==
  ASSUME TypeOK, NEW w \in Workers, Return(w)
  PROVE  /\ pc'[w] = "idle" /\ session'[w] = 0 /\ msg'[w] = 0
         /\ target'[w] = 0 /\ rows'[w] = {}
         /\ \A v \in Workers \ {w} :
              /\ pc'[v] = pc[v] /\ session'[v] = session[v] /\ msg'[v] = msg[v]
              /\ target'[v] = target[v] /\ rows'[v] = rows[v]
         /\ pc' \in [Workers -> {"idle", "find", "deliver", "insert", "select", "fetch",
                                 "delete", "crashed"}]
         /\ session' \in [Workers -> Sessions \cup {0}]
         /\ msg' \in [Workers -> Message \cup {0}]
         /\ target' \in [Workers -> Sessions \cup {0}]
         /\ rows' \in [Workers -> SUBSET Message]
BY DEF TypeOK, Return, Goto

(* A worker that is done holds nothing, and takes nothing from the others. *)
LEMMA ReturnKeeps ==
  ASSUME MailInv, NEW w \in Workers, Return(w), twice' = twice, sent' = sent
  PROVE  HoldsByPc' /\ SharedOnlyByDrains'
<1> USE DEF MailInv
<1>1. HoldsByPc'
  <2> SUFFICES ASSUME NEW v \in Workers
               PROVE  /\ pc'[v] # "idle" => session'[v] \in Sessions
                      /\ pc'[v] \in Chatting \cup {"delete"} <=> msg'[v] # 0
                      /\ msg'[v] # 0 => msg'[v] \in Written
                      /\ pc'[v] = "deliver" => target'[v] \in Sessions
                      /\ rows'[v] \subseteq Written
                      /\ rows'[v] # {} => pc'[v] \in {"fetch", "delete"}
    BY DEF HoldsByPc, Written
  <2>1. CASE v = w
    BY <2>1, ReturnFacts DEF Chatting
  <2>2. CASE v # w
    BY <2>2, ReturnFacts DEF HoldsByPc
  <2> QED
    BY <2>1, <2>2
<1>2. SharedOnlyByDrains'
  <2> SUFFICES ASSUME NEW m \in Written, NEW u \in Workers, NEW v \in Workers, u # v,
                      Has(u, m)', Has(v, m)'
               PROVE  m \in twice /\ pc'[u] \in Draining /\ pc'[v] \in Draining
    BY DEF SharedOnlyByDrains, Written
  <2>1. u # w /\ v # w
    BY WrittenFacts, ReturnFacts DEF Has
  <2> QED
    BY <2>1, ReturnFacts DEF SharedOnlyByDrains, Has
<1> QED
  BY <1>1, <1>2

(* A worker that handles a chat request drains nothing.                    *)
LEMMA ChatDrainsNothing ==
  ASSUME MailInv, NEW w \in Workers, pc[w] \in Chatting \cup {"idle"}
  PROVE  \A m \in Written, s \in Sessions : ~Drains(w, s, m)
<1>1. rows[w] = {}
  BY DEF MailInv, HoldsByPc, Chatting
<1>2. pc[w] # "select" /\ pc[w] # "delete"
  BY DEF Chatting
<1> QED
  BY <1>1, <1>2 DEF Drains

-----------------------------------------------------------------------------
(* One lemma per step.                                                     *)

LEMMA StepPeers ==
  ASSUME MailInv, NEW s \in Sessions, HangUp(s) \/ Close(s)
  PROVE  MailInv'
<1> USE DEF MailInv
<1>1. UNCHANGED <<logins, mailVars, store, pc, localVars, received, fateVars>>
  BY DEF HangUp, Close
<1> USE <1>1 DEF mailVars, localVars, fateVars
<1>2. /\ state' \in [Sessions -> {"open", "gone", "closed"}] /\ uidOf' \in [Sessions -> AnyUid]
      /\ \A q \in Sessions :
            /\ state'[q] = "closed" => uidOf'[q] = 0
            /\ uidOf'[q] # uidOf[q] => state'[q] = "closed"
            /\ state[q] = "closed" => state'[q] = "closed"
  <2>1. CASE HangUp(s)
    BY <2>1 DEF HangUp, TypeOK, sessionVars
  <2>2. CASE Close(s)
    BY <2>2 DEF Close, TypeOK, AnyUid, sessionVars
  <2> QED
    BY <2>1, <2>2
<1>3. TypeOK'
  BY <1>2 DEF TypeOK
<1>4. store \subseteq Written' /\ HoldsByPc' /\ InHandIsNew' /\ SharedOnlyByDrains'
  BY DEF Written, HoldsByPc, InHandIsNew, SharedOnlyByDrains, Has
<1>5. ReceivedIsSettled' /\ AwayIsTried'
  BY DEF ReceivedIsSettled, Settled, Written, AwayIsTried, InHand, Tried
<1>6. RowsAreDrained'
  <2>1. ASSUME NEW uid, NEW r \in Online(uid)' PROVE r \in Online(uid)
    <3>1. r \in Sessions /\ state'[r] # "closed" /\ uidOf'[r] = uid
      BY DEF Online
    <3>2. uidOf[r] = uid /\ state[r] # "closed"
      BY <1>2, <3>1
    <3> QED
      BY <3>1, <3>2 DEF Online
  <2> QED
    BY <2>1 DEF RowsAreDrained, Drains, Stranded
<1> QED
  BY <1>3, <1>4, <1>5, <1>6

LEMMA StepStartChat ==
  ASSUME MailInv, NEW w \in Workers, NEW s \in Sessions, NEW uid \in Uids, StartChat(w, s, uid)
  PROVE  /\ MailInv'
         /\ sent + 1 \in Message /\ \A m : InHand(m)' <=> InHand(m) \/ m = sent + 1
<1> USE DEF MailInv
<1> DEFINE m0 == sent + 1
<1>1. /\ pc[w] = "idle" /\ sent' = m0
      /\ from' = [from EXCEPT ![m0] = uidOf[s]] /\ to' = [to EXCEPT ![m0] = uid]
      /\ session' = [session EXCEPT ![w] = s] /\ msg' = [msg EXCEPT ![w] = m0]
      /\ pc' = [pc EXCEPT ![w] = "find"]
      /\ UNCHANGED <<sessionVars, store, target, rows, received, fateVars>>
      /\ sent < MaxMessages
  BY DEF StartChat, Running, Goto
<1> USE <1>1 DEF sessionVars, fateVars
<1>2. /\ m0 \in Message /\ m0 \notin Written /\ Written' = Written \cup {m0}
      /\ m0 # 0 /\ 0 \notin Written' /\ Written \subseteq Message
  <2>1. sent \in Nat /\ m0 \in Message
    BY WrittenFacts
  <2> QED
    BY <2>1, WrittenFacts DEF Written
<1> HIDE DEF m0
<1>3. /\ pc'[w] = "find" /\ session'[w] = s /\ msg'[w] = m0 /\ rows[w] = {} /\ msg[w] = 0
      /\ \A v \in Workers \ {w} :
           pc'[v] = pc[v] /\ session'[v] = session[v] /\ msg'[v] = msg[v]
  BY DEF TypeOK, HoldsByPc, Chatting
<1>4. \A m \in Written : from'[m] = from[m] /\ to'[m] = to[m]
  BY <1>2 DEF TypeOK
<1>5. TypeOK'
  <2>1. uidOf[s] \in AnyUid /\ uid \in AnyUid
    BY DEF TypeOK, AnyUid
  <2>2. from' \in [Message -> AnyUid] /\ to' \in [Message -> AnyUid]
    BY <2>1 DEF TypeOK
  <2>3. session' \in [Workers -> Sessions \cup {0}] /\ msg' \in [Workers -> Message \cup {0}]
    BY <1>2 DEF TypeOK
  <2>4. sent' \in 0 .. MaxMessages
    BY MailAssumption DEF TypeOK, m0
  <2> QED
    BY <2>2, <2>3, <2>4 DEF TypeOK
<1>6. store' \subseteq Written'
  BY <1>2
<1>7. HoldsByPc'
  BY <1>2, <1>3 DEF HoldsByPc, Chatting
<1>8. received[m0] = 0
  BY <1>2 DEF ReceivedIsSettled
<1>9. InHandIsNew'
  BY <1>2, <1>3, <1>8 DEF InHandIsNew
<1>10. SharedOnlyByDrains'
  <2> SUFFICES ASSUME NEW m \in Written', NEW u \in Workers, NEW v \in Workers, u # v,
                      Has(u, m)', Has(v, m)'
               PROVE  m \in twice /\ pc'[u] \in Draining /\ pc'[v] \in Draining
    BY DEF SharedOnlyByDrains
  <2>1. m # m0
    BY <1>2, <1>3 DEF Has, HoldsByPc
  <2>2. m \in Written /\ u # w /\ v # w
    BY <1>2, <1>3, <2>1 DEF Has
  <2> QED
    BY <1>3, <2>2 DEF SharedOnlyByDrains, Has
<1>11. ReceivedIsSettled'
  <2>1. ASSUME NEW m \in Written, Settled(m) PROVE Settled(m)'
    BY <1>3, <2>1 DEF Settled
  <2>2. \A v \in Workers : msg'[v] \notin rows[v]
    BY <1>2, <1>3 DEF ReceivedIsSettled
  <2> QED
    BY <1>2, <1>8, <2>1, <2>2 DEF ReceivedIsSettled
<1>12. \A m : InHand(m)' <=> InHand(m) \/ m = m0
  BY <1>3 DEF InHand, Chatting
<1>13. AwayIsTried'
  <2>1. Tried' = Tried
    BY DEF Tried
  <2> QED
    BY <1>2, <1>3, <1>12, <2>1 DEF AwayIsTried
<1>14. RowsAreDrained'
  <2> SUFFICES ASSUME NEW m \in store \ (raced \cup kept), NEW r \in Online(to[m])' \ undrained,
                      ~Stranded(m)'
               PROVE  \E v \in Workers : Drains(v, r, m)'
    BY DEF RowsAreDrained
  <2>1. m \in Written /\ ~Stranded(m) /\ r \in Online(to[m]) /\ r \in Sessions
    BY <1>4 DEF Stranded, Online
  <2>2. PICK v \in Workers : Drains(v, r, m)
    BY <2>1 DEF RowsAreDrained
  <2>3. v # w
    BY <2>1, <2>2, ChatDrainsNothing
  <2> QED
    BY <1>3, <2>2, <2>3 DEF Drains
<1> QED
  BY <1>2, <1>5, <1>6, <1>7, <1>9, <1>10, <1>11, <1>12, <1>13, <1>14 DEF m0

(* The lookup, and the end of the process: the message stays in hand.      *)
LEMMA HandKept ==
  ASSUME MailInv, NEW w \in Workers, NEW label \in Chatting, pc[w] \in Chatting,
         pc' = [pc EXCEPT ![w] = label],
         target' \in [Workers -> Sessions \cup {0}],
         label = "deliver" => target'[w] \in Sessions,
         \A v \in Workers \ {w} : target'[v] = target[v],
         UNCHANGED <<sessionVars, mailVars, store, session, msg, rows, received, fateVars>>
  PROVE  MailInv' /\ \A m : InHand(m)' <=> InHand(m)
<1> USE DEF MailInv, sessionVars, mailVars, fateVars
<1>1. TypeOK'
  BY DEF TypeOK, Chatting
<1>2. pc'[w] = label /\ \A v \in Workers \ {w} : pc'[v] = pc[v]
  BY DEF TypeOK
<1>3. Written' = Written
  BY DEF Written
<1>4. HoldsByPc'
  BY <1>2, <1>3 DEF HoldsByPc, Chatting
<1>5. InHandIsNew'
  BY <1>2 DEF InHandIsNew
<1>6. SharedOnlyByDrains'
  BY <1>2, <1>3 DEF SharedOnlyByDrains, Has, Draining, Chatting
<1>7. ReceivedIsSettled'
  BY <1>2, <1>3 DEF ReceivedIsSettled, Settled, Chatting
<1>8. \A m : InHand(m)' <=> InHand(m)
  BY <1>2 DEF InHand
<1>9. AwayIsTried'
  BY <1>2, <1>3, <1>8 DEF AwayIsTried, Tried, Chatting
<1>10. RowsAreDrained'
  BY <1>2 DEF RowsAreDrained, Drains, Stranded, Online, Chatting
<1> QED
  BY <1>1, <1>3, <1>4, <1>5, <1>6, <1>7, <1>8, <1>9, <1>10

LEMMA StepFind ==
  ASSUME MailInv, NEW w \in Workers, Find(w) \/ FindsNobody(w) \/ InsertRefused(w)
  PROVE  MailInv' /\ \A m : InHand(m)' <=> InHand(m)
<1>1. CASE Find(w)
  <2>1. PICK r \in Online(to[msg[w]]) : target' = [target EXCEPT ![w] = r]
    BY <1>1 DEF Find
  <2>2. r \in Sessions
    BY <2>1 DEF Online
  <2>3. /\ target' \in [Workers -> Sessions \cup {0}] /\ target'[w] \in Sessions
        /\ \A v \in Workers \ {w} : target'[v] = target[v]
    BY <2>1, <2>2 DEF MailInv, TypeOK
  <2> QED
    BY <1>1, <2>3, HandKept DEF Find, Running, Goto, Chatting
<1>2. CASE FindsNobody(w) \/ InsertRefused(w)
  <2>1. /\ target' = target /\ target \in [Workers -> Sessions \cup {0}]
        /\ UNCHANGED <<sessionVars, mailVars, store, session, msg, rows, received, fateVars>>
    BY <1>2 DEF FindsNobody, InsertRefused, localVars, MailInv, TypeOK
  <2>2. PICK label \in {"insert", "crashed"} : pc' = [pc EXCEPT ![w] = label]
    BY <1>2 DEF FindsNobody, InsertRefused, Goto
  <2>3. pc[w] \in Chatting /\ label \in Chatting /\ label # "deliver"
    BY <1>2, <2>2 DEF FindsNobody, InsertRefused, Running, Chatting
  <2> QED
    BY <2>1, <2>2, <2>3, HandKept
<1> QED
  BY <1>1, <1>2

(* The handler of a chat request returns: its message is a row, or it was  *)
(* sent or refused.                                                        *)
LEMMA HandGiven ==
  ASSUME MailInv, NEW w \in Workers, pc[w] \in Chatting, Return(w),
         NEW m, m = msg[w],
         store' \in {store, store \cup {m}}, m \in store' \cup Tried',
         received' \in [Message -> Nat], received'[m] \in {0, 1},
         m \in store' => received'[m] = 0,
         \A n \in Message \ {m} : received'[n] = received[n],
         lost' \subseteq Message, Tried \subseteq Tried',
         raced' \subseteq Message, raced \subseteq raced',
         m \in store' /\ Online(to[m]) # {} => m \in raced',
         UNCHANGED <<sessionVars, mailVars, kept, twice, undrained>>
  PROVE  MailInv' /\ \A n : InHand(n)' <=> InHand(n) /\ n # m
<1> USE DEF MailInv, sessionVars, mailVars
<1>1. /\ m \in Written /\ m \in Message /\ m \notin store /\ received[m] = 0
      /\ \A v \in Workers : m \notin rows[v]
      /\ \A v \in Workers \ {w} : msg[v] # m
  BY AloneInHand
<1>2. Written' = Written
  BY DEF Written
<1>3. TypeOK'
  <2>1. store' \subseteq Message
    BY <1>1 DEF TypeOK
  <2> QED
    BY <2>1, ReturnFacts DEF TypeOK
<1>4. store' \subseteq Written'
  BY <1>1, <1>2
<1>5. HoldsByPc' /\ SharedOnlyByDrains'
  BY ReturnKeeps
<1>6. /\ pc'[w] = "idle" /\ msg'[w] = 0 /\ rows'[w] = {}
      /\ \A v \in Workers \ {w} :
           pc'[v] = pc[v] /\ session'[v] = session[v] /\ msg'[v] = msg[v] /\ rows'[v] = rows[v]
  BY ReturnFacts
<1>7. InHandIsNew'
  <2> SUFFICES ASSUME NEW v \in Workers, pc'[v] \in Chatting
               PROVE  msg'[v] \notin store' /\ received'[msg'[v]] = 0
    BY DEF InHandIsNew
  <2>1. v # w
    BY <1>6 DEF Chatting
  <2>2. msg[v] \in Message /\ msg[v] \notin store /\ received[msg[v]] = 0 /\ msg[v] # m
    BY <1>1, <1>6, <2>1, AloneInHand
  <2> QED
    BY <1>6, <2>1, <2>2
<1>8. ReceivedIsSettled'
  <2>1. ASSUME NEW n \in Written, n # m, Settled(n) PROVE Settled(n)'
    <3>1. pc[w] # "delete"
      BY DEF Chatting
    <3> QED
      BY <1>6, <2>1, <3>1 DEF Settled
  <2>2. received'[m] # 0 => received'[m] = 1 /\ Settled(m)'
    BY <1>1, <1>6 DEF Settled
  <2>3. \A v \in Workers : msg'[v] \notin rows'[v]
    BY <1>6 DEF ReceivedIsSettled
  <2>4. ASSUME NEW n \in Written \ (kept \cup twice), received'[n] # 0
        PROVE  received'[n] = 1 /\ Settled(n)'
    <3>1. CASE n = m
      BY <2>2, <2>4, <3>1
    <3>2. CASE n # m
      <4>1. received'[n] = received[n]
        BY <3>2, WrittenFacts
      <4> QED
        BY <2>1, <2>4, <3>2, <4>1 DEF ReceivedIsSettled
    <3> QED
      BY <3>1, <3>2
  <2>5. ASSUME NEW n \in Message \ Written PROVE received'[n] = 0
    BY <1>1 DEF ReceivedIsSettled
  <2> QED
    BY <1>2, <2>3, <2>4, <2>5 DEF ReceivedIsSettled
<1>9. \A n : InHand(n)' <=> InHand(n) /\ n # m
  <2>1. ASSUME NEW n, InHand(n)' PROVE InHand(n) /\ n # m
    <3>1. PICK v \in Workers : msg'[v] = n /\ pc'[v] \in Chatting
      BY <2>1 DEF InHand
    <3>2. v # w
      BY <1>6, <3>1 DEF Chatting
    <3> QED
      BY <1>1, <1>6, <3>1, <3>2 DEF InHand
  <2>2. ASSUME NEW n, InHand(n), n # m PROVE InHand(n)'
    BY <1>6, <2>2 DEF InHand
  <2> QED
    BY <2>1, <2>2
<1>10. AwayIsTried'
  BY <1>2, <1>6, <1>9 DEF AwayIsTried
<1>11. RowsAreDrained'
  <2> SUFFICES ASSUME NEW n \in store' \ (raced' \cup kept), NEW r \in Online(to[n]) \ undrained,
                      ~Stranded(n)
               PROVE  \E v \in Workers : Drains(v, r, n)'
    BY DEF RowsAreDrained, Online, Stranded
  <2>1. n # m /\ n \in store
    OBVIOUS
  <2>2. PICK v \in Workers : Drains(v, r, n)
    BY <2>1 DEF RowsAreDrained
  <2>3. v # w
    BY <2>1, <2>2, ChatDrainsNothing DEF Online
  <2> QED
    BY <1>6, <2>2, <2>3 DEF Drains
<1> QED
  BY <1>3, <1>4, <1>5, <1>7, <1>8, <1>9, <1>10, <1>11

LEMMA StepHandGiven ==
  ASSUME MailInv, NEW w \in Workers, Deliver(w) \/ Insert(w) \/ InsertFails(w)
  PROVE  MailInv' /\ \A n : InHand(n)' <=> InHand(n) /\ n # msg[w]
<1> DEFINE m == msg[w]
<1> USE DEF MailInv
<1>1. pc[w] \in Chatting /\ Return(w)
      /\ UNCHANGED <<sessionVars, mailVars, kept, twice, undrained>>
  BY DEF Deliver, Insert, InsertFails, Running, Chatting
<1>2. m \in Message /\ m \notin store /\ received[m] = 0
  BY <1>1, AloneInHand
<1>3. received \in [Message -> Nat] /\ lost \subseteq Message /\ raced \subseteq Message
  BY DEF TypeOK
<1>4. CASE Deliver(w)
  <2>1. SendTo(target[w], m) /\ store' = store /\ raced' = raced
    BY <1>4 DEF Deliver
  <2>2. /\ received' \in [Message -> Nat] /\ lost' \subseteq Message
        /\ \A n \in Message \ {m} : received'[n] = received[n]
        /\ received'[m] \in {0, 1} /\ Tried' = Tried \cup {m}
    BY <1>2, <2>1, SendFacts
  <2> QED
    BY <1>1, <1>2, <1>3, <2>1, <2>2, HandGiven
<1>5. CASE Insert(w)
  <2>1. /\ store' = store \cup {m} /\ received' = received /\ lost' = lost
        /\ raced' = raced \cup {n \in {m} : Online(to[n]) # {}}
    BY <1>5 DEF Insert
  <2>2. raced' \subseteq Message /\ raced \subseteq raced' /\ (Online(to[m]) # {} => m \in raced')
    BY <1>2, <1>3, <2>1
  <2>3. Tried' = Tried
    BY <2>1 DEF Tried
  <2> HIDE DEF m
  <2> QED
    BY <1>1, <1>2, <1>3, <2>1, <2>2, <2>3, HandGiven DEF m
<1>6. CASE InsertFails(w)
  <2>1. /\ store' = store /\ received' = received /\ lost' = lost \cup {m} /\ raced' = raced
    BY <1>6 DEF InsertFails
  <2>2. Tried' = Tried \cup {m}
    BY <2>1 DEF Tried
  <2> QED
    BY <1>1, <1>2, <1>3, <2>1, <2>2, HandGiven
<1> QED
  BY <1>4, <1>5, <1>6

(* The handler of a login returns: it could not read the rows, or none are *)
(* left of those it read.                                                  *)
LEMMA StepDrainReturns ==
  ASSUME MailInv, NEW w \in Workers, SelectFails(w) \/ DrainEnds(w)
  PROVE  MailInv' /\ \A n : InHand(n)' <=> InHand(n)
<1> USE DEF MailInv, sessionVars, mailVars
<1>1. /\ Return(w)
      /\ UNCHANGED <<sessionVars, mailVars, store, received, lost, kept, twice, raced>>
  BY DEF SelectFails, DrainEnds, fateVars
<1>2. /\ pc[w] \in {"select", "fetch"}
      /\ undrained \subseteq undrained' /\ undrained' \subseteq Sessions
      /\ \/ pc[w] = "select" /\ session[w] \in undrained'
         \/ pc[w] = "fetch" /\ rows[w] = {}
  <2>1. CASE SelectFails(w)
    <3>1. pc[w] = "select" /\ undrained' = undrained \cup {session[w]}
      BY <2>1 DEF SelectFails, Running
    <3>2. session[w] \in Sessions
      BY <3>1 DEF HoldsByPc
    <3> QED
      BY <3>1, <3>2 DEF TypeOK
  <2>2. CASE DrainEnds(w)
    BY <2>2 DEF DrainEnds, Running, fateVars, TypeOK
  <2> QED
    BY <2>1, <2>2
<1> USE <1>1
<1>3. Written' = Written
  BY DEF Written
<1>4. TypeOK'
  BY <1>2, ReturnFacts DEF TypeOK
<1>5. store' \subseteq Written'
  BY <1>3
<1>6. HoldsByPc' /\ SharedOnlyByDrains'
  BY ReturnKeeps
<1>7. /\ pc'[w] = "idle" /\ msg'[w] = 0 /\ rows'[w] = {}
      /\ \A v \in Workers \ {w} :
           pc'[v] = pc[v] /\ session'[v] = session[v] /\ msg'[v] = msg[v] /\ rows'[v] = rows[v]
  BY ReturnFacts
<1>8. InHandIsNew'
  BY <1>7 DEF InHandIsNew, Chatting
<1>9. ReceivedIsSettled'
  <2>1. ASSUME NEW n \in Written, Settled(n) PROVE Settled(n)'
    BY <1>2, <1>7, <2>1 DEF Settled
  <2>2. \A v \in Workers : msg'[v] \notin rows'[v]
    BY <1>7 DEF ReceivedIsSettled
  <2> QED
    BY <1>3, <2>1, <2>2 DEF ReceivedIsSettled
<1>10. \A n : InHand(n)' <=> InHand(n)
  BY <1>2, <1>7 DEF InHand, Chatting
<1>11. AwayIsTried'
  BY <1>3, <1>7, <1>10 DEF AwayIsTried, Tried
<1>12. RowsAreDrained'
  <2> SUFFICES ASSUME NEW n \in store \ (raced \cup kept), NEW r \in Online(to[n]) \ undrained',
                      ~Stranded(n)
               PROVE  \E v \in Workers : Drains(v, r, n)'
    BY DEF RowsAreDrained, Online, Stranded
  <2>1. PICK v \in Workers : Drains(v, r, n)
    BY <1>2 DEF RowsAreDrained
  <2>2. v # w
    BY <1>2, <2>1 DEF Drains
  <2> QED
    BY <1>7, <2>1, <2>2 DEF Drains
<1> QED
  BY <1>4, <1>5, <1>6, <1>8, <1>9, <1>10, <1>11, <1>12

LEMMA StepStartLogin ==
  ASSUME MailInv, NEW w \in Workers, NEW s \in Sessions, NEW uid \in Uids, StartLogin(w, s, uid)
  PROVE  MailInv' /\ \A n : InHand(n)' <=> InHand(n)
<1> USE DEF MailInv, mailVars
<1>1. /\ pc[w] = "idle" /\ state[s] # "closed"
      /\ logins < MaxLogins /\ logins' = logins + 1
      /\ uidOf' = [uidOf EXCEPT ![s] = uid] /\ session' = [session EXCEPT ![w] = s]
      /\ undrained' = undrained \ {s} /\ pc' = [pc EXCEPT ![w] = "select"]
      /\ UNCHANGED <<state, mailVars, store, msg, target, rows, received, lost, kept, twice, raced>>
  BY DEF StartLogin, Running, Goto
<1> USE <1>1
<1>2. Written' = Written
  BY DEF Written
<1>3. TypeOK'
  <2>1. logins' \in 0 .. MaxLogins
    BY MailAssumption DEF TypeOK
  <2>2. uidOf' \in [Sessions -> AnyUid] /\ uidOf'[s] = uid
    BY DEF TypeOK, AnyUid
  <2>3. \A r \in Sessions : state'[r] = "closed" => uidOf'[r] = 0
    BY <2>2 DEF TypeOK
  <2>4. session' \in [Workers -> Sessions \cup {0}] /\ undrained' \subseteq Sessions
    BY DEF TypeOK
  <2>5. pc' \in [Workers -> {"idle", "find", "deliver", "insert", "select", "fetch", "delete",
                             "crashed"}]
    BY DEF TypeOK
  <2> QED
    BY <2>1, <2>2, <2>3, <2>4, <2>5 DEF TypeOK
<1>4. /\ pc'[w] = "select" /\ session'[w] = s /\ msg[w] = 0 /\ rows[w] = {}
      /\ \A v \in Workers \ {w} : pc'[v] = pc[v] /\ session'[v] = session[v]
  BY DEF TypeOK, HoldsByPc, Chatting
<1>5. store' \subseteq Written'
  BY <1>2
<1>6. HoldsByPc'
  BY <1>2, <1>4 DEF HoldsByPc, Chatting
<1>7. InHandIsNew'
  BY <1>4 DEF InHandIsNew, Chatting
<1>8. SharedOnlyByDrains'
  BY <1>2, <1>4, WrittenFacts DEF SharedOnlyByDrains, Has
<1>9. ReceivedIsSettled'
  <2>1. ASSUME NEW n \in Written, Settled(n) PROVE Settled(n)'
    BY <1>4, <2>1 DEF Settled
  <2> QED
    BY <1>2, <2>1 DEF ReceivedIsSettled
<1>10. \A n : InHand(n)' <=> InHand(n)
  BY <1>4 DEF InHand, Chatting
<1>11. AwayIsTried'
  BY <1>2, <1>4, <1>10 DEF AwayIsTried, Tried
<1>12. RowsAreDrained'
  <2> SUFFICES ASSUME NEW n \in store \ (raced \cup kept), NEW r \in Online(to[n])' \ undrained',
                      ~Stranded(n)
               PROVE  \E v \in Workers : Drains(v, r, n)'
    BY DEF RowsAreDrained, Stranded
  <2>1. CASE r = s
    BY <1>4, <2>1 DEF Drains
  <2>2. CASE r # s
    <3>1. r \in Online(to[n]) \ undrained
      BY <2>2 DEF Online, TypeOK
    <3>2. PICK v \in Workers : Drains(v, r, n)
      BY <3>1 DEF RowsAreDrained
    <3>3. v # w
      BY <1>4, <3>2 DEF Drains
    <3> QED
      BY <1>4, <3>2, <3>3 DEF Drains
  <2> QED
    BY <2>1, <2>2
<1> QED
  BY <1>3, <1>5, <1>6, <1>7, <1>8, <1>9, <1>10, <1>11, <1>12

LEMMA StepSelect ==
  ASSUME MailInv, NEW w \in Workers, Select(w)
  PROVE  MailInv' /\ \A n : InHand(n)' <=> InHand(n)
<1> DEFINE uid == uidOf[session[w]]
           found == {m \in store : to[m] = uid /\ Table(from[m]) = Table(uid)}
<1> USE DEF MailInv, sessionVars, mailVars
<1>1. /\ pc[w] = "select" /\ rows' = [rows EXCEPT ![w] = found]
      /\ twice' = twice \cup (found \cap InOtherDrains(w))
      /\ pc' = [pc EXCEPT ![w] = "fetch"]
      /\ UNCHANGED <<sessionVars, mailVars, store, session, msg, target, received,
                     lost, kept, raced, undrained>>
  BY DEF Select, Running, Goto
<1>2. found \subseteq store /\ found \subseteq Message /\ found \subseteq Written
  BY WrittenFacts
<1>3. \A m \in store \ found : Stranded(m) \/ to[m] # uid
  BY DEF Stranded
<1> HIDE DEF found
<1> USE <1>1
<1>4. Written' = Written
  BY DEF Written
<1>5. TypeOK'
  <2>1. rows' \in [Workers -> SUBSET Message] /\ twice' \subseteq Message
    BY <1>2 DEF TypeOK
  <2> QED
    BY <2>1 DEF TypeOK
<1>6. /\ pc'[w] = "fetch" /\ rows'[w] = found /\ msg[w] = 0 /\ rows[w] = {}
      /\ \A v \in Workers \ {w} : pc'[v] = pc[v] /\ rows'[v] = rows[v]
  BY DEF TypeOK, HoldsByPc, Chatting
<1>7. ASSUME NEW m \in found, NEW v \in Workers \ {w}, Has(v, m)
      PROVE  m \in twice' /\ pc[v] \in Draining
  <2>1. m \in InOtherDrains(w)
    BY <1>7 DEF Has, InOtherDrains
  <2>2. pc[v] \notin Chatting
    <3>1. ASSUME pc[v] \in Chatting PROVE FALSE
      <4>1. msg[v] \notin store
        BY <3>1, AloneInHand
      <4>2. rows[v] = {}
        BY <3>1 DEF HoldsByPc, Chatting
      <4> QED
        BY <1>2, <1>7, <4>1, <4>2 DEF Has
    <3> QED
      BY <3>1
  <2>3. pc[v] \in {"fetch", "delete"}
    BY <1>2, <1>7, <2>2, WrittenFacts DEF Has, HoldsByPc
  <2> QED
    BY <2>1, <2>3 DEF Draining
<1>8. HoldsByPc'
  BY <1>2, <1>4, <1>6 DEF HoldsByPc, Chatting
<1>9. InHandIsNew'
  BY <1>6 DEF InHandIsNew, Chatting
<1>10. SharedOnlyByDrains'
  <2> SUFFICES ASSUME NEW m \in Written, NEW u \in Workers, NEW v \in Workers, u # v,
                      Has(u, m)', Has(v, m)'
               PROVE  m \in twice' /\ pc'[u] \in Draining /\ pc'[v] \in Draining
    BY <1>4 DEF SharedOnlyByDrains
  <2>1. CASE u = w
    <3>1. m \in found /\ Has(v, m)
      BY <1>6, <2>1, WrittenFacts DEF Has
    <3> QED
      BY <1>6, <1>7, <2>1, <3>1 DEF Draining
  <2>2. CASE v = w
    <3>1. m \in found /\ Has(u, m)
      BY <1>6, <2>2, WrittenFacts DEF Has
    <3> QED
      BY <1>6, <1>7, <2>2, <3>1 DEF Draining
  <2>3. CASE u # w /\ v # w
    BY <1>6, <2>3 DEF SharedOnlyByDrains, Has
  <2> QED
    BY <2>1, <2>2, <2>3
<1>11. ReceivedIsSettled'
  <2>1. ASSUME NEW n \in Written \ (kept \cup twice'), received[n] # 0, Settled(n)
        PROVE  Settled(n)'
    <3>1. n \notin found
      <4> SUFFICES ASSUME n \in found PROVE FALSE
        OBVIOUS
      <4>1. PICK v \in Workers : pc[v] = "delete" /\ msg[v] = n
        BY <1>2, <2>1 DEF Settled
      <4>2. n \in twice'
        BY <1>7, <4>1 DEF Has
      <4> QED
        BY <2>1, <4>2
    <3>2. n \in store => \E v \in Workers : pc'[v] = "delete" /\ msg[v] = n
      BY <1>6, <2>1 DEF Settled
    <3> QED
      BY <1>6, <2>1, <3>1, <3>2 DEF Settled
  <2>2. \A v \in Workers : msg[v] \notin rows'[v]
    BY <1>2, <1>6, WrittenFacts DEF ReceivedIsSettled
  <2>3. twice \subseteq twice'
    OBVIOUS
  <2> QED
    BY <1>4, <2>1, <2>2, <2>3 DEF ReceivedIsSettled
<1>12. \A n : InHand(n)' <=> InHand(n)
  BY <1>6 DEF InHand, Chatting
<1>13. AwayIsTried'
  BY <1>4, <1>6, <1>12 DEF AwayIsTried, Tried
<1>14. RowsAreDrained'
  <2> SUFFICES ASSUME NEW n \in store \ (raced \cup kept), NEW r \in Online(to[n]) \ undrained,
                      ~Stranded(n)
               PROVE  \E v \in Workers : Drains(v, r, n)'
    BY DEF RowsAreDrained, Stranded, Online
  <2>1. PICK v \in Workers : Drains(v, r, n)
    BY DEF RowsAreDrained
  <2>2. CASE v = w
    <3>1. session[w] = r /\ uidOf[r] = to[n]
      BY <2>1, <2>2 DEF Drains, Online
    <3>2. n \in found
      BY <1>3, <3>1
    <3> QED
      BY <1>6, <3>1, <3>2 DEF Drains
  <2>3. CASE v # w
    BY <1>6, <2>1, <2>3 DEF Drains
  <2> QED
    BY <2>2, <2>3
<1> QED
  BY <1>2, <1>5, <1>4, <1>8, <1>9, <1>10, <1>11, <1>12, <1>13, <1>14

(* A row is sent: its drain holds it now by its message.                   *)
LEMMA StepSendRow ==
  ASSUME MailInv, NEW w \in Workers, NEW m \in rows[w],
         pc[w] = "fetch", SendTo(session[w], m),
         rows' = [rows EXCEPT ![w] = @ \ {m}], msg' = [msg EXCEPT ![w] = m],
         pc' = [pc EXCEPT ![w] = "delete"],
         UNCHANGED <<sessionVars, mailVars, store, session, target, kept, twice, raced, undrained>>
  PROVE  MailInv' /\ \A n : InHand(n)' <=> InHand(n)
<1> USE DEF MailInv, sessionVars, mailVars
<1>1. m \in Written /\ m \in Message /\ m # 0
  BY WrittenFacts DEF HoldsByPc
<1>2. /\ received' \in [Message -> Nat] /\ lost' \subseteq Message
      /\ \A n \in Message \ {m} : received'[n] = received[n]
      /\ received'[m] \in {received[m], received[m] + 1}
      /\ Tried' = Tried \cup {m}
  BY <1>1, SendFacts
<1>3. /\ pc'[w] = "delete" /\ msg'[w] = m /\ rows'[w] = rows[w] \ {m} /\ msg[w] = 0
      /\ \A v \in Workers \ {w} : pc'[v] = pc[v] /\ msg'[v] = msg[v] /\ rows'[v] = rows[v]
  BY DEF TypeOK, HoldsByPc, Chatting
<1>4. Written' = Written
  BY DEF Written
<1>5. TypeOK'
  <2>1. rows' \in [Workers -> SUBSET Message] /\ msg' \in [Workers -> Message \cup {0}]
    BY <1>1 DEF TypeOK
  <2> QED
    BY <1>2, <2>1 DEF TypeOK
<1>6. HoldsByPc'
  BY <1>1, <1>3, <1>4 DEF HoldsByPc, Chatting
<1>7. InHandIsNew'
  <2> SUFFICES ASSUME NEW v \in Workers, pc'[v] \in Chatting
               PROVE  msg'[v] \notin store /\ received'[msg'[v]] = 0
    BY DEF InHandIsNew
  <2>1. v # w
    BY <1>3 DEF Chatting
  <2>2. /\ msg[v] \in Message /\ msg[v] \notin store /\ received[msg[v]] = 0
        /\ msg[v] \notin rows[w]
    BY <1>3, <2>1, AloneInHand
  <2> QED
    BY <1>2, <1>3, <2>1, <2>2
<1>8. SharedOnlyByDrains'
  <2>1. ASSUME NEW n \in Written, NEW v \in Workers, Has(v, n)' PROVE Has(v, n)
    BY <1>3, <2>1 DEF Has
  <2>2. \A v \in Workers : pc[v] \in Draining => pc'[v] \in Draining
    BY <1>3 DEF Draining
  <2> QED
    BY <1>4, <2>1, <2>2 DEF SharedOnlyByDrains
<1>9. ReceivedIsSettled'
  <2>1. ASSUME NEW n \in Written, n # m, Settled(n) PROVE Settled(n)'
    BY <1>3, <2>1 DEF Settled
  <2>2. ASSUME m \notin kept \cup twice PROVE received'[m] \in {0, 1} /\ Settled(m)'
    <3>1. received[m] = 0
      BY <1>1, <2>2 DEF ReceivedIsSettled, Settled
    <3>2. \A v \in Workers \ {w} : m \notin rows[v]
      BY <1>1, <2>2 DEF SharedOnlyByDrains, Has
    <3> QED
      BY <1>2, <1>3, <3>1, <3>2 DEF Settled
  <2>3. \A v \in Workers : msg'[v] \notin rows'[v]
    BY <1>3 DEF ReceivedIsSettled
  <2>4. ASSUME NEW n \in Written \ (kept \cup twice), received'[n] # 0
        PROVE  received'[n] = 1 /\ Settled(n)'
    <3>1. CASE n = m
      BY <2>2, <2>4, <3>1
    <3>2. CASE n # m
      <4>1. received'[n] = received[n]
        BY <1>2, <3>2, WrittenFacts
      <4> QED
        BY <2>1, <2>4, <3>2, <4>1 DEF ReceivedIsSettled
    <3> QED
      BY <3>1, <3>2
  <2>5. ASSUME NEW n \in Message \ Written PROVE received'[n] = 0
    BY <1>1, <1>2 DEF ReceivedIsSettled
  <2> QED
    BY <1>4, <2>3, <2>4, <2>5 DEF ReceivedIsSettled
<1>10. \A n : InHand(n)' <=> InHand(n)
  BY <1>3 DEF InHand, Chatting
<1>11. AwayIsTried'
  BY <1>2, <1>3, <1>4, <1>10 DEF AwayIsTried
<1>12. RowsAreDrained'
  <2> SUFFICES ASSUME NEW n \in store \ (raced \cup kept), NEW r \in Online(to[n]) \ undrained,
                      ~Stranded(n)
               PROVE  \E v \in Workers : Drains(v, r, n)'
    BY DEF RowsAreDrained, Stranded, Online
  <2>1. PICK v \in Workers : Drains(v, r, n)
    BY DEF RowsAreDrained
  <2>2. Drains(v, r, n)'
    BY <1>3, <2>1 DEF Drains
  <2> QED
    BY <2>2
<1> QED
  BY <1>4, <1>5, <1>6, <1>7, <1>8, <1>9, <1>10, <1>11, <1>12

(* A row is deleted, or the query fails.                                   *)
LEMMA StepDelete ==
  ASSUME MailInv, NEW w \in Workers, DeleteRow(w) \/ DeleteFails(w)
  PROVE  /\ MailInv' /\ \A n : InHand(n)' <=> InHand(n)
         /\ store' \in {store, store \ {msg[w]}} /\ msg[w] \in Tried
<1> DEFINE m == msg[w]
<1> USE DEF MailInv, sessionVars, mailVars
<1>1. /\ pc[w] = "delete" /\ pc' = [pc EXCEPT ![w] = "fetch"] /\ msg' = [msg EXCEPT ![w] = 0]
      /\ UNCHANGED <<sessionVars, mailVars, session, target, rows, received,
                     lost, twice, raced, undrained>>
  BY DEF DeleteRow, DeleteFails, Fetch, Running, Goto
<1>2. m \in Written /\ m \in Message /\ m \in Tried
  BY <1>1, WrittenFacts DEF HoldsByPc, AwayIsTried
<1>3. /\ store' \in {store, store \ {m}}
      /\ kept' \subseteq Message /\ kept \subseteq kept'
      /\ m \notin store' \/ m \in kept'
  <2>1. kept \subseteq Message
    BY DEF TypeOK
  <2>2. CASE DeleteRow(w)
    BY <2>1, <2>2 DEF DeleteRow
  <2>3. CASE DeleteFails(w)
    BY <1>2, <2>1, <2>3 DEF DeleteFails
  <2> QED
    BY <2>2, <2>3
<1>4. /\ pc'[w] = "fetch" /\ msg'[w] = 0
      /\ \A v \in Workers \ {w} : pc'[v] = pc[v] /\ msg'[v] = msg[v]
  BY <1>1 DEF TypeOK
<1> HIDE DEF m
<1> USE <1>1
<1>5. Written' = Written /\ store' \subseteq store
  BY <1>3 DEF Written
<1>6. TypeOK'
  BY <1>3, <1>5 DEF TypeOK
<1>7. HoldsByPc'
  BY <1>4, <1>5 DEF HoldsByPc, Chatting
<1>8. InHandIsNew'
  BY <1>4, <1>5 DEF InHandIsNew, Chatting
<1>9. SharedOnlyByDrains'
  <2>1. ASSUME NEW n \in Written, NEW v \in Workers, Has(v, n)' PROVE Has(v, n)
    BY <1>4, <2>1, WrittenFacts DEF Has
  <2>2. \A v \in Workers : pc[v] \in Draining => pc'[v] \in Draining
    BY <1>4 DEF Draining
  <2> QED
    BY <1>5, <2>1, <2>2 DEF SharedOnlyByDrains
<1>10. ReceivedIsSettled'
  <2>1. ASSUME NEW n \in Written \ (kept' \cup twice), Settled(n) PROVE Settled(n)'
    <3>1. CASE n = m
      BY <1>3, <2>1, <3>1 DEF Settled
    <3>2. CASE n # m
      <4>1. ASSUME n \in store' PROVE \E v \in Workers : pc'[v] = "delete" /\ msg'[v] = n
        <5>1. PICK v \in Workers : pc[v] = "delete" /\ msg[v] = n
          BY <1>5, <2>1, <4>1 DEF Settled
        <5>2. v # w
          BY <3>2, <5>1 DEF m
        <5> QED
          BY <1>4, <5>1, <5>2
      <4> QED
        BY <2>1, <4>1 DEF Settled
    <3> QED
      BY <3>1, <3>2
  <2>2. \A v \in Workers : msg'[v] \notin rows[v]
    BY <1>4, WrittenFacts DEF ReceivedIsSettled, HoldsByPc
  <2> QED
    BY <1>3, <1>5, <2>1, <2>2 DEF ReceivedIsSettled
<1>11. \A n : InHand(n)' <=> InHand(n)
  BY <1>4 DEF InHand, Chatting
<1>12. AwayIsTried'
  <2>1. Tried' = Tried
    BY DEF Tried
  <2>2. ASSUME NEW n \in Written PROVE n \in store' \/ InHand(n) \/ n \in Tried
    BY <1>2, <1>3 DEF AwayIsTried
  <2> QED
    BY <1>4, <1>5, <1>11, <2>1, <2>2 DEF AwayIsTried
<1>13. RowsAreDrained'
  <2> SUFFICES ASSUME NEW n \in store' \ (raced \cup kept'), NEW r \in Online(to[n]) \ undrained,
                      ~Stranded(n)
               PROVE  \E v \in Workers : Drains(v, r, n)'
    BY DEF RowsAreDrained, Stranded, Online
  <2>1. n # m /\ n \in store \ (raced \cup kept)
    BY <1>3, <1>5
  <2>2. PICK v \in Workers : Drains(v, r, n)
    BY <2>1 DEF RowsAreDrained
  <2>3. Drains(v, r, n)'
    BY <1>4, <2>1, <2>2 DEF Drains, m
  <2> QED
    BY <2>3
<1> QED
  BY <1>2, <1>3, <1>5, <1>6, <1>7, <1>8, <1>9, <1>10, <1>11, <1>12, <1>13 DEF m

-----------------------------------------------------------------------------
(* The invariant holds in every reachable state.                           *)

LEMMA WorkerKeeps ==
  ASSUME MailInv, NEW w \in Workers, WorkerStep(w)
  PROVE  MailInv'
<1>1. CASE Find(w) \/ FindsNobody(w) \/ InsertRefused(w)
  BY <1>1, StepFind
<1>2. CASE Deliver(w) \/ Insert(w) \/ InsertFails(w)
  BY <1>2, StepHandGiven
<1>3. CASE Select(w)
  BY <1>3, StepSelect
<1>4. CASE SelectFails(w) \/ DrainEnds(w)
  BY <1>4, StepDrainReturns
<1>5. CASE SendRow(w)
  BY <1>5, StepSendRow DEF SendRow, Running, Goto
<1>6. CASE DeleteRow(w) \/ DeleteFails(w)
  BY <1>6, StepDelete
<1> QED
  BY <1>1, <1>2, <1>3, <1>4, <1>5, <1>6 DEF WorkerStep

THEOREM MailInvariant == Spec => []MailInv
<1>1. ASSUME MailInv, [Next]_vars
      PROVE  MailInv'
  <2>1. CASE \E s \in Sessions : HangUp(s) \/ Close(s)
    BY <1>1, <2>1, StepPeers
  <2>2. CASE \E s \in Sessions, w \in Workers, uid \in Uids : StartChat(w, s, uid)
    BY <1>1, <2>2, StepStartChat
  <2>3. CASE \E s \in Sessions, w \in Workers, uid \in Uids : StartLogin(w, s, uid)
    BY <1>1, <2>3, StepStartLogin
  <2>4. CASE \E w \in Workers : WorkerStep(w)
    BY <1>1, <2>4, WorkerKeeps
  <2>5. CASE UNCHANGED vars
    <3> USE <2>5 DEF vars, sessionVars, mailVars, localVars, fateVars
    <3>1. TypeOK' /\ Written' = Written /\ Tried' = Tried
      BY <1>1 DEF MailInv, TypeOK, Written, Tried
    <3>2. HoldsByPc' /\ InHandIsNew' /\ SharedOnlyByDrains'
      BY <1>1, <3>1 DEF MailInv, HoldsByPc, InHandIsNew, SharedOnlyByDrains, Has
    <3>3. ReceivedIsSettled' /\ AwayIsTried'
      BY <1>1, <3>1 DEF MailInv, ReceivedIsSettled, Settled, AwayIsTried, InHand
    <3>4. RowsAreDrained'
      BY <1>1 DEF MailInv, RowsAreDrained, Drains, Stranded, Online
    <3> QED
      BY <1>1, <3>1, <3>2, <3>3, <3>4 DEF MailInv
  <2> QED
    BY <1>1, <2>1, <2>2, <2>3, <2>4, <2>5 DEF Next
<1> QED
  BY InitMail, <1>1, PTL DEF Spec

(* However many workers chat and drain at the same time, a message reaches *)
(* a peer twice only after a failed delete or two drains that selected it  *)
(* together (mod_chat.c:73-87).                                            *)
THEOREM ReceivedAtMostOnce == Spec => []AtMostOnce
<1>1. MailInv => AtMostOnce
  <2> SUFFICES ASSUME MailInv, NEW m \in Message, received[m] > 1
               PROVE  m \in kept \cup twice
    BY DEF AtMostOnce
  <2>1. received[m] # 0 /\ received[m] # 1
    BY DEF MailInv, TypeOK
  <2> QED
    BY <2>1 DEF MailInv, ReceivedIsSettled
<1> QED
  BY MailInvariant, <1>1, PTL

(* A message that lies unread while its recipient is logged in and nobody  *)
(* works for that session is in a table no login looks at, came after the  *)
(* login, or met a query that failed - and there is no other way           *)
(* (mod_chat.c:34-48,72).                                                  *)
THEOREM LeftBehindExplained == Spec => []LeftBehindOnlyByRace
<1>1. MailInv => LeftBehindOnlyByRace
  <2> SUFFICES ASSUME MailInv, NEW m \in 1 .. sent, m \in store,
                      NEW s \in Online(to[m]), ~Handled(s), s \notin undrained,
                      m \notin raced \cup kept
               PROVE  Stranded(m)
    BY DEF LeftBehindOnlyByRace, LeftBehind
  <2>1. \A w \in Workers : ~Drains(w, s, m)
    BY DEF Drains, Handled
  <2> QED
    BY <2>1 DEF MailInv, RowsAreDrained
<1> QED
  BY MailInvariant, <1>1, PTL

-----------------------------------------------------------------------------
(* The refinement of the mailbox.                                          *)

placeBar == [m \in Message |-> Place(m)]

LEMMA PlaceKept ==
  ASSUME UNCHANGED <<sent, store>>, \A m : InHand(m)' <=> InHand(m)
  PROVE  placeBar' = placeBar
<1>1. ASSUME NEW m \in Message PROVE Place(m)' = Place(m)
  BY DEF Place
<1> QED
  BY <1>1 DEF placeBar

LEMMA PlaceMoves ==
  ASSUME NEW m \in Message, NEW here, NEW there,
         Place(m) = here, Place(m)' = there,
         \A n \in Message \ {m} : Place(n)' = Place(n)
  PROVE  Box!Move(m, here, there)
BY DEF Box!Move

(* The place of a message that exists.                                     *)
LEMMA PlaceWritten ==
  ASSUME TypeOK, NEW m \in Written
  PROVE  Place(m) = IF m \in store THEN "stored" ELSE IF InHand(m) THEN "hand" ELSE "away"
<1>1. ~(m > sent)
  BY DEF TypeOK, Written
<1> QED
  BY <1>1 DEF Place

LEMMA PlaceWrittenNext ==
  ASSUME TypeOK', NEW m \in Written'
  PROVE  Place(m)' = IF m \in store' THEN "stored" ELSE IF InHand(m)' THEN "hand" ELSE "away"
<1>1. ~(m > sent')
  BY DEF TypeOK, Written
<1> QED
  BY <1>1 DEF Place

(* A new request is in hand.                                               *)
LEMMA StartChatPosts ==
  ASSUME MailInv, MailInv', NEW w \in Workers, NEW s \in Sessions, NEW uid \in Uids,
         StartChat(w, s, uid), NEW m, m = sent + 1
  PROVE  Box!Post(m) /\ m \in Message
<1>1. m \in Message /\ \A n : InHand(n)' <=> InHand(n) \/ n = m
  BY StepStartChat
<1>2. UNCHANGED <<store, received, lost>> /\ sent' = m /\ sent \in Nat
  BY WrittenFacts DEF StartChat, fateVars, MailInv
<1>3. Place(m) = "unwritten"
  <2>1. m > sent /\ m \notin Written /\ m # 0
    BY <1>2 DEF Written
  <2>2. m \notin store
    BY <2>1 DEF MailInv
  <2>3. ~InHand(m)
    BY <2>1 DEF MailInv, HoldsByPc, InHand
  <2> QED
    BY <2>1, <2>2, <2>3 DEF Place
<1>4. Place(m)' = "hand"
  <2>1. m \in Written' /\ m \notin store
    BY <1>1, <1>2 DEF Written, MailInv
  <2>2. TypeOK' /\ InHand(m)' /\ m \notin store'
    BY <1>1, <1>2, <2>1 DEF MailInv
  <2>3. Place(m)' = IF m \in store' THEN "stored" ELSE IF InHand(m)' THEN "hand" ELSE "away"
    BY <2>1, <2>2, PlaceWrittenNext
  <2> QED
    BY <2>2, <2>3
<1>5. ASSUME NEW n \in Message \ {m} PROVE Place(n)' = Place(n)
  <2>1. n \in Nat /\ (n > sent' <=> n > sent)
    BY <1>2 DEF Message
  <2>2. (InHand(n)' <=> InHand(n)) /\ (n \in store' <=> n \in store)
    BY <1>1, <1>2
  <2> QED
    BY <2>1, <2>2 DEF Place
<1>6. Tried' = Tried
  BY <1>2 DEF Tried
<1> QED
  BY <1>1, <1>3, <1>4, <1>5, <1>6, PlaceMoves DEF Box!Post

(* A message that leaves the hand is stored, or it was sent or refused.    *)
LEMMA HandGoes ==
  ASSUME MailInv, MailInv', NEW w \in Workers, Deliver(w) \/ Insert(w) \/ InsertFails(w),
         NEW m, m = msg[w]
  PROVE  m \in Message /\ (Box!Store(m) \/ Box!Dispose(m))
<1>1. pc[w] \in Chatting /\ sent' = sent
  BY DEF Deliver, Insert, InsertFails, Running, Chatting, mailVars
<1>2. m \in Message /\ m \in Written /\ m \notin store /\ received[m] = 0
  BY <1>1, AloneInHand
<1>3. \A n : InHand(n)' <=> InHand(n) /\ n # m
  BY StepHandGiven
<1>4. InHand(m) /\ ~InHand(m)'
  BY <1>1, <1>3 DEF InHand
<1>5. TypeOK /\ TypeOK' /\ m \in Written' /\ Written' = Written
  BY <1>1, <1>2 DEF MailInv, Written
<1>6. Place(m) = "hand"
  BY <1>2, <1>4, <1>5, PlaceWritten
<1>7. Place(m)' = IF m \in store' THEN "stored" ELSE "away"
  <2>1. Place(m)' = IF m \in store' THEN "stored" ELSE IF InHand(m)' THEN "hand" ELSE "away"
    BY <1>5, PlaceWrittenNext
  <2> QED
    BY <1>4, <2>1
<1>8. \/ store' = store \cup {m} /\ Tried' = Tried
      \/ store' = store /\ Tried' = Tried \cup {m}
  <2>1. CASE Deliver(w)
    BY <1>2, <1>5, <2>1, SendFacts DEF Deliver
  <2>2. CASE Insert(w)
    BY <2>2 DEF Insert, Tried
  <2>3. CASE InsertFails(w)
    BY <2>3 DEF InsertFails, Tried
  <2> QED
    BY <2>1, <2>2, <2>3
<1>9. ASSUME NEW n \in Message \ {m} PROVE Place(n)' = Place(n)
  <2>1. n \in store' <=> n \in store
    BY <1>8
  <2> QED
    BY <1>1, <1>3, <2>1 DEF Place
<1>10. CASE store' = store \cup {m} /\ Tried' = Tried
  <2>1. Place(m)' = "stored"
    BY <1>7, <1>10
  <2>2. Box!Move(m, "hand", "stored")
    BY <1>2, <1>6, <1>9, <2>1, PlaceMoves
  <2> QED
    BY <1>2, <1>10, <2>2 DEF Box!Store
<1>11. CASE store' = store /\ Tried' = Tried \cup {m}
  <2>1. Place(m)' = "away"
    BY <1>2, <1>7, <1>11
  <2>2. Box!Move(m, "hand", "away")
    BY <1>2, <1>6, <1>9, <2>1, PlaceMoves
  <2> QED
    BY <1>2, <1>11, <2>2 DEF Box!Dispose
<1> QED
  BY <1>8, <1>10, <1>11

(* A row that is sent again after another drain deleted it was tried       *)
(* before: nothing changes.                                                *)
LEMMA SendTries ==
  ASSUME MailInv, NEW w \in Workers, SendRow(w)
  PROVE  \/ \E m \in Message : Box!Try(m)
         \/ UNCHANGED <<placeBar, Tried>>
<1>1. PICK m \in rows[w] :
        /\ pc[w] = "fetch" /\ SendTo(session[w], m)
        /\ rows' = [rows EXCEPT ![w] = @ \ {m}] /\ msg' = [msg EXCEPT ![w] = m]
        /\ pc' = [pc EXCEPT ![w] = "delete"]
        /\ UNCHANGED <<sessionVars, mailVars, store, session, target, kept, twice, raced, undrained>>
  BY DEF SendRow, Running, Goto
<1>2. m \in Written /\ m \in Message /\ TypeOK
  BY WrittenFacts DEF MailInv, HoldsByPc
<1>3. Tried' = Tried \cup {m}
  BY <1>1, <1>2, SendFacts
<1>4. placeBar' = placeBar
  <2>1. \A n : InHand(n)' <=> InHand(n)
    BY <1>1, StepSendRow
  <2> QED
    BY <1>1, <2>1, PlaceKept DEF mailVars
<1>5. CASE m \in store
  <2>1. Place(m) = "stored"
    BY <1>2, <1>5, PlaceWritten
  <2>2. placeBar[m] = "stored"
    BY <1>2, <2>1 DEF placeBar
  <2> QED
    BY <1>2, <1>3, <1>4, <2>2 DEF Box!Try, placeBar
<1>6. CASE m \notin store
  <2>1. ~InHand(m)
    <3> SUFFICES ASSUME NEW v \in Workers, msg[v] = m, pc[v] \in Chatting
                 PROVE  FALSE
      BY DEF InHand
    <3> QED
      BY AloneInHand
  <2>2. m \in Tried
    BY <1>2, <1>6, <2>1 DEF MailInv, AwayIsTried
  <2> QED
    BY <1>3, <1>4, <2>2
<1> QED
  BY <1>5, <1>6

LEMMA DeleteRemoves ==
  ASSUME MailInv, MailInv', NEW w \in Workers, DeleteRow(w) \/ DeleteFails(w), NEW m, m = msg[w]
  PROVE  (Box!Remove(m) /\ m \in Message) \/ UNCHANGED <<placeBar, Tried>>
<1>1. /\ store' \in {store, store \ {m}} /\ m \in Tried
      /\ \A n : InHand(n)' <=> InHand(n)
  BY StepDelete
<1>2. UNCHANGED <<sent, received, lost>> /\ pc[w] = "delete"
  BY DEF DeleteRow, DeleteFails, Fetch, mailVars, Running
<1>3. m \in Written /\ m \in Message
  BY <1>2, WrittenFacts DEF MailInv, HoldsByPc
<1>4. Tried' = Tried
  BY <1>2 DEF Tried
<1>5. CASE m \notin store \/ store' = store
  <2>1. store' = store
    BY <1>1, <1>5
  <2> QED
    BY <1>1, <1>2, <1>4, <2>1, PlaceKept
<1>6. CASE m \in store /\ store' = store \ {m}
  <2>1. TypeOK /\ TypeOK' /\ m \in Written'
    BY <1>2, <1>3 DEF MailInv, Written
  <2>2. ~InHand(m)
    <3> SUFFICES ASSUME NEW v \in Workers, msg[v] = m, pc[v] \in Chatting
                 PROVE  FALSE
      BY DEF InHand
    <3> QED
      BY <1>6, AloneInHand
  <2>3. Place(m) = "stored"
    BY <1>3, <1>6, <2>1, PlaceWritten
  <2>4. Place(m)' = "away"
    <3>1. Place(m)' = IF m \in store' THEN "stored" ELSE IF InHand(m)' THEN "hand" ELSE "away"
      BY <2>1, PlaceWrittenNext
    <3> QED
      BY <1>1, <1>6, <2>2, <3>1
  <2>5. ASSUME NEW n \in Message \ {m} PROVE Place(n)' = Place(n)
    <3>1. n \in store' <=> n \in store
      BY <1>6
    <3> QED
      BY <1>1, <1>2, <3>1 DEF Place
  <2>6. Box!Move(m, "stored", "away")
    BY <1>3, <2>3, <2>4, <2>5, PlaceMoves
  <2>7. Box!Remove(m)
    BY <1>1, <1>4, <2>6 DEF Box!Remove
  <2> QED
    BY <1>3, <2>7
<1> QED
  BY <1>1, <1>5, <1>6

LEMMA StepImplements ==
  ASSUME MailInv, MailInv', [Next]_vars
  PROVE  [Box!MailboxNext]_<<placeBar, Tried>>
<1>1. CASE \/ UNCHANGED vars
           \/ \E s \in Sessions : HangUp(s) \/ Close(s)
           \/ \E s \in Sessions, w \in Workers, uid \in Uids : StartLogin(w, s, uid)
  <2>1. UNCHANGED <<sent, store, received, lost>>
    BY <1>1 DEF HangUp, Close, StartLogin, vars, mailVars, fateVars
  <2>2. \A n : InHand(n)' <=> InHand(n)
    <3>1. CASE UNCHANGED vars \/ \E s \in Sessions : HangUp(s) \/ Close(s)
      BY <3>1 DEF HangUp, Close, vars, localVars, InHand
    <3>2. CASE \E s \in Sessions, w \in Workers, uid \in Uids : StartLogin(w, s, uid)
      BY <3>2, StepStartLogin
    <3> QED
      BY <1>1, <3>1, <3>2
  <2> QED
    BY <2>1, <2>2, PlaceKept DEF Tried
<1>2. ASSUME NEW s \in Sessions, NEW w \in Workers, NEW uid \in Uids, StartChat(w, s, uid)
      PROVE  Box!MailboxNext
  <2>1. PICK m : m = sent + 1
    OBVIOUS
  <2>2. Box!Post(m) /\ m \in Message
    BY <1>2, <2>1, StartChatPosts
  <2> QED
    BY <2>2 DEF Box!MailboxNext
<1>3. ASSUME NEW w \in Workers, WorkerStep(w)
      PROVE  [Box!MailboxNext]_<<placeBar, Tried>>
  <2>1. CASE \/ Find(w) \/ FindsNobody(w) \/ InsertRefused(w)
             \/ Select(w) \/ SelectFails(w) \/ DrainEnds(w)
    <3>1. UNCHANGED <<sent, store, received, lost>>
      BY <2>1 DEF Find, FindsNobody, InsertRefused, Select, SelectFails, DrainEnds,
                  mailVars, fateVars
    <3>2. \A n : InHand(n)' <=> InHand(n)
      BY <2>1, StepFind, StepSelect, StepDrainReturns
    <3> QED
      BY <3>1, <3>2, PlaceKept DEF Tried
  <2>2. CASE Deliver(w) \/ Insert(w) \/ InsertFails(w)
    <3>1. PICK m : m = msg[w]
      OBVIOUS
    <3>2. m \in Message /\ (Box!Store(m) \/ Box!Dispose(m))
      BY <2>2, <3>1, HandGoes
    <3> QED
      BY <3>2 DEF Box!MailboxNext
  <2>3. CASE SendRow(w)
    BY <2>3, SendTries DEF Box!MailboxNext
  <2>4. CASE DeleteRow(w) \/ DeleteFails(w)
    <3>1. PICK m : m = msg[w]
      OBVIOUS
    <3>2. (Box!Remove(m) /\ m \in Message) \/ UNCHANGED <<placeBar, Tried>>
      BY <2>4, <3>1, DeleteRemoves
    <3> QED
      BY <3>2 DEF Box!MailboxNext
  <2> QED
    BY <1>3, <2>1, <2>2, <2>3, <2>4 DEF WorkerStep
<1> QED
  BY <1>1, <1>2, <1>3 DEF Next

LEMMA InitImplements == Init => Box!MailboxInit
<1> SUFFICES ASSUME Init PROVE Box!MailboxInit
  OBVIOUS
<1>1. ASSUME NEW m \in Message PROVE Place(m) = "unwritten"
  <2>1. m > sent /\ m \notin store /\ ~InHand(m)
    BY MailAssumption DEF Init, Message, InHand, Chatting
  <2> QED
    BY <2>1 DEF Place
<1>2. Tried = {}
  BY DEF Init, Tried
<1> QED
  BY <1>1, <1>2 DEF Box!MailboxInit

(* The workers and the tables together are a mailbox: no message leaves a  *)
(* worker's hands but to a peer or the database, none is stored twice or   *)
(* comes back, and no row is deleted that was never sent, however many     *)
(* workers chat, log in and drain at once (mod_chat.c:20-95).              *)
THEOREM MailImplementsMailbox == Spec => ImplementsMailbox
<1>1. MailInv /\ MailInv' /\ [Next]_vars => [Box!MailboxNext]_(Box!mailboxVars)
  BY StepImplements DEF Box!mailboxVars, placeBar
<1> QED
  BY <1>1, InitImplements, MailInvariant, PTL
     DEF Spec, ImplementsMailbox, Box!MailboxSpec

=============================================================================
