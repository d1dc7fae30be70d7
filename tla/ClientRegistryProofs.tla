------------------------ MODULE ClientRegistryProofs ------------------------
(***************************************************************************)
(* Proofs about the client list for any number of nodes, sockets and       *)
(* clients.  RegistryInv is inductive: until fd2clients dangles the list   *)
(* is a well-formed doubly linked list of exactly the open sockets, and it *)
(* dangles in one way only.                                                *)
(***************************************************************************)
EXTENDS ClientRegistry, TLAPS

LEMMA InitRegistry == Init => RegistryInv
<1> SUFFICES ASSUME Init PROVE RegistryInv
  OBVIOUS
<1> USE RegistryAssumption DEF Init
<1>1. TypeOK
  <2>1. /\ fd \in [Nodes -> Fds \cup {0}]
        /\ client \in [Nodes -> Clients \cup {Null}]
        /\ next \in [Nodes -> Nodes \cup {Null}]
        /\ prev \in [Nodes -> Nodes \cup {Null}]
        /\ tail \in [Nodes -> Nodes \cup {Null}]
        /\ connected \in [Fds -> Clients \cup {Null}]
    OBVIOUS
  <2>2. live \in SUBSET Nodes /\ unlisted \in SUBSET Fds /\ order \in Seq(Nodes)
    OBVIOUS
  <2> QED
    BY <2>1, <2>2 DEF TypeOK
<1>2. ~Dangling /\ order = << >> /\ Len(order) = 0
  BY DEF Dangling
<1>3. PointersSpellOrder /\ NodesAccounted /\ ListMatchesSockets
  BY <1>2 DEF PointersSpellOrder, NodesAccounted, ListMatchesSockets
<1>4. EmptyIsZero /\ HeadUnmoved /\ ExitLeavesNoClient /\ UnlistedConnected
  BY <1>2 DEF EmptyIsZero, HeadUnmoved, ExitLeavesNoClient, UnlistedConnected
<1> QED
  BY <1>1, <1>2, <1>3, <1>4 DEF RegistryInv

(* The list without its i-th node.                                         *)
LEMMA WithoutFacts ==
  ASSUME TypeOK, NEW i \in 1 .. Len(order)
  PROVE  /\ Len(order) \in Nat /\ Len(order) >= 1
         /\ Without(i) \in Seq(Nodes)
         /\ Len(Without(i)) = Len(order) - 1
         /\ \A j \in 1 .. Len(order) - 1 :
              Without(i)[j] = IF j < i THEN order[j] ELSE order[j + 1]
<1>1. order \in Seq(Nodes) /\ Len(order) \in Nat /\ Len(order) >= 1
  BY DEF TypeOK
<1>2. \A j \in 1 .. Len(order) - 1 :
        (IF j < i THEN order[j] ELSE order[j + 1]) \in Nodes
  BY <1>1
<1>3. Without(i) \in [1 .. Len(order) - 1 -> Nodes]
  BY <1>2 DEF Without
<1>4. Without(i) \in Seq(Nodes) /\ Len(Without(i)) = Len(order) - 1
  BY <1>1, <1>3
<1> QED
  BY <1>1, <1>4 DEF Without

-----------------------------------------------------------------------------
(* Accepting a client.                                                     *)

LEMMA StepFillHead ==
  ASSUME RegistryInv, NEW f \in Fds, NEW c \in Clients,
         NewClient(f, c), FillHead(f, c), UNCHANGED unlisted
  PROVE  RegistryInv'
<1> USE RegistryAssumption DEF RegistryInv, NewClient, FillHead
<1>1. ~Dangling /\ order = << >>
  <2>1. ~Dangling
    OBVIOUS
  <2>2. ASSUME order # << >> PROVE FALSE
    <3>1. 1 \in 1 .. Len(order) /\ order[1] = head
      BY <2>1, <2>2 DEF PointersSpellOrder, TypeOK
    <3>2. fd[head] \in Fds
      BY <2>1, <3>1 DEF ListMatchesSockets
    <3> QED
      BY <3>2 DEF HeadIsEmpty
  <2> QED
    BY <2>1, <2>2
<1>2. ~Dangling' /\ Len(order') = 1 /\ order'[1] = head /\ head' = head /\ order' # << >>
  BY <1>1 DEF Dangling
<1>3. TypeOK'
  BY DEF TypeOK
<1>4. /\ fd'[head] = f /\ client'[head] = c
      /\ next'[head] = Null /\ prev'[head] = Null
  BY DEF TypeOK
<1>5. PointersSpellOrder'
  BY <1>2, <1>4 DEF PointersSpellOrder
<1>6. NodesAccounted'
  <2>1. live = {head}
    BY <1>1 DEF NodesAccounted
  <2> QED
    BY <1>2, <2>1 DEF NodesAccounted
<1>7. ListMatchesSockets'
  <2>1. \A g \in Fds : connected[g] # Null => g \in unlisted
    BY <1>1 DEF ListMatchesSockets
  <2>2. f \notin unlisted
    BY DEF UnlistedConnected
  <2>3. connected'[f] = c /\ \A g \in Fds : g # f => connected'[g] = connected[g]
    BY DEF TypeOK
  <2> QED
    BY <1>2, <1>4, <2>1, <2>2, <2>3 DEF ListMatchesSockets
<1>8. EmptyIsZero' /\ HeadUnmoved' /\ ExitLeavesNoClient' /\ UnlistedConnected'
  BY <1>1, <1>2, <1>4 DEF EmptyIsZero, HeadUnmoved, ExitLeavesNoClient,
     UnlistedConnected, TypeOK
<1> QED
  BY <1>2, <1>3, <1>5, <1>6, <1>7, <1>8

LEMMA StepAppendNode ==
  ASSUME RegistryInv, NEW f \in Fds, NEW c \in Clients,
         NewClient(f, c), AppendNode(f, c), UNCHANGED unlisted
  PROVE  RegistryInv'
<1> USE RegistryAssumption DEF RegistryInv
<1> DEFINE k == Len(order)
           last == order[k]
<1>1. /\ ~Dangling /\ order # << >> /\ order \in Seq(Nodes)
      /\ k \in Nat /\ k >= 1 /\ last \in Nodes /\ order[1] = head
      /\ main = "accept" /\ main' = main
      /\ connected[f] = Null /\ connected' = [connected EXCEPT ![f] = c]
      /\ head' = head /\ replaced' = replaced
  BY DEF NewClient, AppendNode, HeadIsEmpty, EmptyIsZero, PointersSpellOrder, TypeOK
<1>2. PICK n \in Nodes \ live :
        /\ live' = live \cup {n}
        /\ fd' = [fd EXCEPT ![n] = f]
        /\ client' = [client EXCEPT ![n] = c]
        /\ next' = [next EXCEPT ![n] = Null, ![last] = n]
        /\ prev' = [prev EXCEPT ![n] = last]
        /\ tail' = [tail EXCEPT ![n] = tail[last]]
        /\ order' = Append(order, n)
  BY DEF AppendNode
<1>3. /\ order' \in Seq(Nodes) /\ Len(order') = k + 1 /\ order'[k + 1] = n
      /\ \A i \in 1 .. k : order'[i] = order[i] /\ order[i] \in Nodes
      /\ order' # << >>
  BY <1>1, <1>2
<1>4. /\ \A i \in 1 .. k : order[i] # n
      /\ last # n /\ head # n
      /\ ~Dangling' /\ head \in live
  BY <1>1, <1>2 DEF NodesAccounted, Dangling
<1>5. TypeOK'
  BY <1>1, <1>2, <1>3 DEF TypeOK
<1>6. /\ fd'[n] = f /\ client'[n] = c /\ next'[n] = Null /\ prev'[n] = last
      /\ next'[last] = n /\ prev'[head] = prev[head] /\ fd'[head] = fd[head]
      /\ \A i \in 1 .. k : /\ fd'[order[i]] = fd[order[i]]
                           /\ client'[order[i]] = client[order[i]]
                           /\ prev'[order[i]] = prev[order[i]]
                           /\ order[i] # last => next'[order[i]] = next[order[i]]
  BY <1>1, <1>2, <1>3, <1>4 DEF TypeOK
<1>7. PointersSpellOrder'
  <2>1. \A i \in 1 .. k : i # k => order[i] # last
    BY <1>1 DEF NodesAccounted
  <2>2. \A i \in 1 .. k : i # k => next'[order[i]] = order[i + 1]
    BY <1>1, <1>6, <2>1 DEF PointersSpellOrder
  <2>3. ASSUME NEW i \in 1 .. k + 1
        PROVE  /\ next'[order'[i]] = IF i < k + 1 THEN order'[i + 1] ELSE Null
               /\ i > 1 => prev'[order'[i]] = order'[i - 1]
    <3>1. CASE i = k + 1
      <4>1. next'[order'[k + 1]] = Null /\ prev'[order'[k + 1]] = order'[k]
        BY <1>1, <1>3, <1>6
      <4>2. i - 1 = k /\ ~(i < k + 1)
        BY <1>1, <3>1
      <4> QED
        BY <3>1, <4>1, <4>2
    <3>2. CASE i = k
      <4>1. next'[order'[k]] = order'[k + 1] /\ order'[k] = order[k]
        BY <1>1, <1>3, <1>6
      <4>2. ASSUME i > 1
            PROVE  prev[order[i]] = order[i - 1] /\ order'[i - 1] = order[i - 1]
        <5>1. i - 1 \in 1 .. k /\ i \in 1 .. k
          BY <1>1, <3>2, <4>2
        <5> QED
          BY <1>1, <1>3, <4>2, <5>1 DEF PointersSpellOrder
      <4>3. /\ i < k + 1 /\ i \in 1 .. k
            /\ order'[i] = order[i] /\ next'[order'[i]] = order'[i + 1]
        BY <1>1, <1>3, <3>2, <4>1
      <4> QED
        BY <1>6, <4>2, <4>3
    <3>3. CASE i < k
      <4>1. /\ i \in 1 .. k /\ i + 1 \in 1 .. k /\ i # k /\ i < k + 1
            /\ order'[i] = order[i] /\ order'[i + 1] = order[i + 1]
        BY <1>1, <1>3, <3>3
      <4>2. ASSUME i > 1
            PROVE  prev[order[i]] = order[i - 1] /\ order'[i - 1] = order[i - 1]
        <5>1. i - 1 \in 1 .. k
          BY <1>1, <4>2
        <5> QED
          BY <1>1, <1>3, <4>1, <4>2, <5>1 DEF PointersSpellOrder
      <4> QED
        BY <1>6, <2>2, <4>1, <4>2
    <3> QED
      BY <1>1, <3>1, <3>2, <3>3
  <2>4. order'[1] = head
    BY <1>1, <1>3
  <2>5. prev'[head] \in {Null, head}
    BY <1>1, <1>6 DEF PointersSpellOrder
  <2> QED
    BY <1>1, <1>3, <2>3, <2>4, <2>5 DEF PointersSpellOrder
<1>8. NodesAccounted'
  <2>1. \A i, j \in 1 .. k + 1 : order'[i] = order'[j] => i = j
    BY <1>1, <1>3, <1>4 DEF NodesAccounted
  <2>2. {order'[i] : i \in 1 .. k + 1} = {order[i] : i \in 1 .. k} \cup {n}
    BY <1>1, <1>3
  <2>3. live' = {order'[i] : i \in 1 .. k + 1} \cup {head'}
    BY <1>1, <1>2, <2>2 DEF NodesAccounted
  <2> QED
    BY <1>3, <2>1, <2>3 DEF NodesAccounted
<1>9. ListMatchesSockets'
  <2>1. f \notin unlisted /\ unlisted' = unlisted
    BY <1>1 DEF UnlistedConnected
  <2>2. \A i \in 1 .. k : fd[order[i]] # f
    BY <1>1 DEF ListMatchesSockets
  <2>3. connected'[f] = c /\ \A g \in Fds : g # f => connected'[g] = connected[g]
    BY <1>1 DEF TypeOK
  <2>4. ASSUME NEW g \in Fds, connected'[g] # Null, g \notin unlisted
        PROVE  \E i \in 1 .. k + 1 : fd'[order'[i]] = g /\ client'[order'[i]] = connected'[g]
    <3>1. CASE g = f
      BY <1>1, <1>3, <1>6, <2>3, <3>1
    <3>2. CASE g # f
      <4>1. PICK i \in 1 .. k : fd[order[i]] = g /\ client[order[i]] = connected[g]
        BY <1>1, <2>3, <2>4, <3>2 DEF ListMatchesSockets
      <4>2. i \in 1 .. k + 1 /\ order'[i] = order[i]
        BY <1>1, <1>3
      <4> QED
        BY <1>6, <2>3, <3>2, <4>1, <4>2
    <3> QED
      BY <3>1, <3>2
  <2>5. \A i, j \in 1 .. k + 1 : fd'[order'[i]] = fd'[order'[j]] => i = j
    BY <1>1, <1>3, <1>6, <2>2 DEF ListMatchesSockets
  <2>6. \A i \in 1 .. k + 1 :
          /\ fd'[order'[i]] \in Fds \ unlisted
          /\ client'[order'[i]] = connected'[fd'[order'[i]]]
          /\ client'[order'[i]] # Null
    BY <1>1, <1>3, <1>6, <2>1, <2>2, <2>3 DEF ListMatchesSockets
  <2> QED
    BY <1>3, <2>1, <2>4, <2>5, <2>6 DEF ListMatchesSockets
<1>10. EmptyIsZero' /\ HeadUnmoved' /\ ExitLeavesNoClient'
  BY <1>1, <1>3, <1>4, <1>6 DEF EmptyIsZero, HeadUnmoved, ExitLeavesNoClient
<1>11. UnlistedConnected'
  BY <1>1 DEF UnlistedConnected, TypeOK
<1> QED
  BY <1>1, <1>4, <1>5, <1>7, <1>8, <1>9, <1>10, <1>11

(* Steps that leave the list as it is.                                     *)
LEMMA SameList ==
  ASSUME RegistryInv, UNCHANGED listVars
  PROVE  /\ PointersSpellOrder' /\ NodesAccounted' /\ EmptyIsZero' /\ HeadUnmoved'
         /\ Dangling' = Dangling
<1> USE DEF RegistryInv, listVars, fieldVars
<1>1. PointersSpellOrder'
  BY DEF PointersSpellOrder, Dangling
<1>2. NodesAccounted'
  BY DEF NodesAccounted, Dangling
<1>3. EmptyIsZero' /\ HeadUnmoved'
  BY DEF EmptyIsZero, HeadUnmoved, Dangling
<1>4. Dangling' = Dangling
  BY DEF Dangling
<1> QED
  BY <1>1, <1>2, <1>3, <1>4

LEMMA StepAcceptUnlisted ==
  ASSUME RegistryInv, NEW f \in Fds, NEW c \in Clients, AcceptUnlisted(f, c)
  PROVE  RegistryInv'
<1> USE RegistryAssumption DEF RegistryInv, AcceptUnlisted, NewClient
<1>1. PointersSpellOrder' /\ NodesAccounted' /\ EmptyIsZero' /\ HeadUnmoved' /\ Dangling' = Dangling
  BY SameList
<1>2. TypeOK'
  BY DEF TypeOK, listVars, fieldVars
<1>3. ListMatchesSockets'
  <2>1. \A i \in 1 .. Len(order) : fd[order[i]] # f
    BY DEF ListMatchesSockets
  <2>2. connected'[f] = c /\ \A g \in Fds : g # f => connected'[g] = connected[g]
    BY DEF TypeOK
  <2> QED
    BY <2>1, <2>2 DEF ListMatchesSockets, listVars, fieldVars
<1>4. UnlistedConnected' /\ ExitLeavesNoClient'
  BY DEF UnlistedConnected, ExitLeavesNoClient, TypeOK
<1> QED
  BY <1>1, <1>2, <1>3, <1>4

LEMMA StepCloseUnknown ==
  ASSUME RegistryInv, NEW f \in Fds, CloseUnknown(f)
  PROVE  RegistryInv'
<1> USE RegistryAssumption DEF RegistryInv, CloseUnknown
<1>1. PointersSpellOrder' /\ NodesAccounted' /\ EmptyIsZero' /\ HeadUnmoved' /\ Dangling' = Dangling
  BY SameList
<1>2. TypeOK'
  BY DEF TypeOK, listVars, fieldVars
<1>3. ListMatchesSockets'
  <2>1. connected'[f] = Null /\ \A g \in Fds : g # f => connected'[g] = connected[g]
    BY DEF TypeOK
  <2> QED
    BY <2>1 DEF ListMatchesSockets, listVars, fieldVars
<1>4. UnlistedConnected' /\ ExitLeavesNoClient'
  BY DEF UnlistedConnected, ExitLeavesNoClient, TypeOK
<1> QED
  BY <1>1, <1>2, <1>3, <1>4

-----------------------------------------------------------------------------
(* Deleting a node, branch by branch.                                      *)

(* What every branch shares: the sockets and the clients of the nodes that *)
(* stay, and the end of the connection.                                    *)
LEMMA DeleteKeepsOthers ==
  ASSUME RegistryInv, ~Dangling, ~Dangling', NEW i \in 1 .. Len(order),
         order' = Without(i),
         connected' = [connected EXCEPT ![fd[order[i]]] = Null],
         UNCHANGED unlisted,
         \A j \in 1 .. Len(order) : j # i =>
            fd'[order[j]] = fd[order[j]] /\ client'[order[j]] = client[order[j]]
  PROVE  ListMatchesSockets'
<1> USE DEF RegistryInv
<1> DEFINE k == Len(order)
           f == fd[order[i]]
<1>1. /\ k \in Nat /\ k >= 1 /\ Len(order') = k - 1
      /\ \A j \in 1 .. k - 1 : order'[j] = IF j < i THEN order[j] ELSE order[j + 1]
  BY WithoutFacts
<1>2. /\ f \in Fds \ unlisted
      /\ connected'[f] = Null /\ \A g \in Fds : g # f => connected'[g] = connected[g]
  BY DEF ListMatchesSockets, TypeOK
<1>3. \A j \in 1 .. k : j # i =>
        /\ fd[order[j]] \in Fds \ unlisted /\ fd[order[j]] # f
        /\ client[order[j]] = connected[fd[order[j]]] /\ client[order[j]] # Null
  BY DEF ListMatchesSockets
<1>4. ASSUME NEW j \in 1 .. k - 1
      PROVE  \E m \in 1 .. k : m # i /\ order'[j] = order[m] /\ m = IF j < i THEN j ELSE j + 1
  <2>1. CASE j < i
    BY <1>1, <2>1
  <2>2. CASE ~(j < i)
    BY <1>1, <2>2
  <2> QED
    BY <2>1, <2>2
<1>5. \A j \in 1 .. k - 1 :
        /\ fd'[order'[j]] \in Fds \ unlisted
        /\ client'[order'[j]] = connected'[fd'[order'[j]]]
        /\ client'[order'[j]] # Null
  BY <1>2, <1>3, <1>4
<1>6. ASSUME NEW j \in 1 .. k - 1, NEW m \in 1 .. k - 1, fd'[order'[j]] = fd'[order'[m]]
      PROVE  j = m
  <2>1. PICK p \in 1 .. k : p # i /\ order'[j] = order[p] /\ p = IF j < i THEN j ELSE j + 1
    BY <1>4
  <2>2. PICK q \in 1 .. k : q # i /\ order'[m] = order[q] /\ q = IF m < i THEN m ELSE m + 1
    BY <1>4
  <2>3. p = q
    BY <1>6, <2>1, <2>2 DEF ListMatchesSockets
  <2> QED
    BY <2>1, <2>2, <2>3
<1>7. ASSUME NEW g \in Fds, connected'[g] # Null, g \notin unlisted
      PROVE  \E j \in 1 .. k - 1 : fd'[order'[j]] = g /\ client'[order'[j]] = connected'[g]
  <2>1. g # f /\ connected'[g] = connected[g]
    BY <1>2, <1>7
  <2>2. PICK m \in 1 .. k : fd[order[m]] = g /\ client[order[m]] = connected[g]
    BY <1>7, <2>1 DEF ListMatchesSockets
  <2>3. m # i
    BY <2>1, <2>2
  <2>4. PICK j \in 1 .. k - 1 : order'[j] = order[m]
    <3>1. CASE m < i
      <4>1. m \in 1 .. k - 1 /\ order'[m] = order[m]
        BY <1>1, <3>1
      <4> QED
        BY <4>1
    <3>2. CASE m > i
      <4>1. m - 1 \in 1 .. k - 1 /\ order'[m - 1] = order[m]
        BY <1>1, <3>2
      <4> QED
        BY <4>1
    <3> QED
      BY <2>3, <3>1, <3>2
  <2> QED
    BY <2>1, <2>2, <2>3, <2>4
<1> QED
  BY <1>1, <1>5, <1>6, <1>7 DEF ListMatchesSockets

(* The nodes that stay.                                                    *)
LEMMA WithoutSet ==
  ASSUME RegistryInv, ~Dangling, NEW i \in 1 .. Len(order), order' = Without(i)
  PROVE  /\ {order'[j] : j \in 1 .. Len(order')}
              = {order[j] : j \in 1 .. Len(order)} \ {order[i]}
         /\ \A j, m \in 1 .. Len(order') : order'[j] = order'[m] => j = m
<1> USE DEF RegistryInv
<1> DEFINE k == Len(order)
<1>1. /\ k \in Nat /\ k >= 1 /\ Len(order') = k - 1
      /\ \A j \in 1 .. k - 1 : order'[j] = IF j < i THEN order[j] ELSE order[j + 1]
  BY WithoutFacts
<1>2. \A j, m \in 1 .. k : order[j] = order[m] => j = m
  BY DEF NodesAccounted
<1>3. ASSUME NEW j \in 1 .. k - 1
      PROVE  \E m \in 1 .. k : m # i /\ order'[j] = order[m]
  <2>1. CASE j < i
    BY <1>1, <2>1
  <2>2. CASE ~(j < i)
    BY <1>1, <2>2
  <2> QED
    BY <2>1, <2>2
<1>4. ASSUME NEW m \in 1 .. k, m # i
      PROVE  \E j \in 1 .. k - 1 : order'[j] = order[m]
  <2>1. CASE m < i
    <3>1. m \in 1 .. k - 1 /\ order'[m] = order[m]
      BY <1>1, <2>1
    <3> QED
      BY <3>1
  <2>2. CASE m > i
    <3>1. m - 1 \in 1 .. k - 1 /\ order'[m - 1] = order[m]
      BY <1>1, <2>2
    <3> QED
      BY <3>1
  <2> QED
    BY <1>4, <2>1, <2>2
<1>5. \A j, m \in 1 .. k - 1 : order'[j] = order'[m] => j = m
  BY <1>1, <1>2
<1>6. {order'[j] : j \in 1 .. k - 1} \subseteq {order[j] : j \in 1 .. k} \ {order[i]}
  BY <1>2, <1>3
<1>7. {order[j] : j \in 1 .. k} \ {order[i]} \subseteq {order'[j] : j \in 1 .. k - 1}
  BY <1>4
<1> QED
  BY <1>1, <1>5, <1>6, <1>7

(* The only node: it stays allocated, with fd 0.                           *)
LEMMA OnlyHeadHasNoPrev ==
  ASSUME RegistryInv, ~Dangling, NEW i \in 1 .. Len(order), prev[order[i]] = Null
  PROVE  /\ i = 1 /\ order[1] = head /\ head \in Nodes /\ order # << >>
         /\ Len(order) \in Nat /\ Len(order) >= 1
         /\ next[head] = IF 1 < Len(order) THEN order[2] ELSE Null
         /\ \A j \in 1 .. Len(order) : order[j] \in Nodes /\ order[j] # Null
<1> USE RegistryAssumption DEF RegistryInv
<1>1. /\ order \in Seq(Nodes) /\ Len(order) \in Nat /\ Len(order) >= 1
      /\ order # << >> /\ head \in Nodes
      /\ \A j \in 1 .. Len(order) : order[j] \in Nodes /\ order[j] # Null
  BY DEF TypeOK
<1>2. i = 1
  <2>1. ASSUME i > 1 PROVE FALSE
    <3>1. i - 1 \in 1 .. Len(order) /\ prev[order[i]] = order[i - 1]
      BY <1>1, <2>1 DEF PointersSpellOrder
    <3> QED
      BY <1>1, <3>1
  <2> QED
    BY <2>1
<1>3. order[1] = head /\ next[order[1]] = IF 1 < Len(order) THEN order[2] ELSE Null
  BY <1>1 DEF PointersSpellOrder
<1> QED
  BY <1>1, <1>2, <1>3

LEMMA StepResetHead ==
  ASSUME RegistryInv, ~Dangling, NEW i \in 1 .. Len(order),
         ResetHead(i), order' = Without(i),
         connected' = [connected EXCEPT ![fd[order[i]]] = Null],
         UNCHANGED <<main, unlisted>>, main # "exit"
  PROVE  RegistryInv'
<1> USE RegistryAssumption DEF RegistryInv, ResetHead
<1>1. /\ i = 1 /\ Len(order) = 1 /\ order[1] = head /\ head \in Nodes /\ order # << >>
  <2>1. prev[order[i]] = Null /\ next[head] = Null
    OBVIOUS
  <2>2. Len(order) > 1 => 2 \in 1 .. Len(order)
    BY <2>1, OnlyHeadHasNoPrev
  <2>3. ~(Len(order) > 1)
    BY <2>1, <2>2, OnlyHeadHasNoPrev
  <2>4. /\ i = 1 /\ order[1] = head /\ head \in Nodes /\ order # << >>
        /\ Len(order) \in Nat /\ Len(order) >= 1
    BY <2>1, OnlyHeadHasNoPrev
  <2>5. Len(order) = 1
    <3> HIDE DEF RegistryInv, ResetHead
    <3>1. \A m \in Nat : m >= 1 /\ ~(m > 1) => m = 1
      OBVIOUS
    <3> QED
      BY <2>3, <2>4, <3>1, Zenon
  <2> QED
    BY <2>4, <2>5, Zenon
<1>2. order' \in Seq(Nodes) /\ Len(order') = 0 /\ order' = << >>
  BY <1>1, WithoutFacts
<1>3. ~Dangling'
  BY DEF Dangling
<1>4. TypeOK'
  BY <1>1, <1>2 DEF TypeOK
<1>5. /\ fd'[head] = 0 /\ next'[head] = Null /\ prev'[head] = Null
      /\ head' = head /\ live' = live /\ replaced' = replaced
  BY <1>1 DEF TypeOK
<1>6. PointersSpellOrder' /\ EmptyIsZero' /\ HeadUnmoved'
  BY <1>2, <1>3, <1>5 DEF PointersSpellOrder, EmptyIsZero, HeadUnmoved
<1>7. NodesAccounted'
  <2>1. live = {head}
    BY <1>1 DEF NodesAccounted
  <2>2. {order'[j] : j \in 1 .. Len(order')} = {}
    BY <1>2
  <2>3. \A j, m \in 1 .. Len(order') : order'[j] = order'[m] => j = m
    BY <1>2
  <2> QED
    BY <1>5, <2>1, <2>2, <2>3 DEF NodesAccounted
<1>8. ListMatchesSockets'
  <2>1. \A j \in 1 .. Len(order) : j = i
    BY <1>1
  <2> QED
    BY <1>3, <2>1, DeleteKeepsOthers
<1>9. UnlistedConnected'
  BY <1>1 DEF UnlistedConnected, ListMatchesSockets, TypeOK
<1>10. ExitLeavesNoClient'
  BY DEF ExitLeavesNoClient
<1> QED
  BY <1>3, <1>4, <1>6, <1>7, <1>8, <1>9, <1>10

(* The first of several nodes: the second becomes the head, and its own    *)
(* prev.                                                                   *)
LEMMA StepMoveHead ==
  ASSUME RegistryInv, ~Dangling, NEW i \in 1 .. Len(order),
         MoveHead(i), order' = Without(i),
         connected' = [connected EXCEPT ![fd[order[i]]] = Null],
         UNCHANGED <<main, unlisted>>, main # "exit"
  PROVE  RegistryInv'
<1> USE RegistryAssumption DEF RegistryInv, MoveHead
<1> DEFINE k == Len(order)
<1>1. /\ i = 1 /\ order[1] = head /\ head \in Nodes /\ order # << >>
      /\ k \in Nat /\ k > 1 /\ head' = order[2] /\ order[2] \in Nodes
  <2>1. prev[order[i]] = Null /\ next[head] # Null /\ head' = next[head]
    OBVIOUS
  <2> HIDE DEF RegistryInv, MoveHead
  <2>2. /\ i = 1 /\ order[1] = head /\ head \in Nodes /\ order # << >>
        /\ k \in Nat /\ k > 1 /\ head' = order[2]
    BY <2>1, OnlyHeadHasNoPrev
  <2>3. 2 \in 1 .. k
    BY <2>2
  <2> QED
    BY <2>1, <2>2, <2>3, OnlyHeadHasNoPrev
<1>2. /\ order' \in Seq(Nodes) /\ Len(order') = k - 1 /\ order' # << >>
      /\ \A j \in 1 .. k - 1 : order'[j] = order[j + 1]
      /\ order'[1] = head'
  <2>1. /\ order' \in Seq(Nodes) /\ Len(order') = k - 1
        /\ \A j \in 1 .. k - 1 : order'[j] = IF j < 1 THEN order[j] ELSE order[j + 1]
    BY <1>1, WithoutFacts
  <2> HIDE DEF RegistryInv, MoveHead
  <2>2. order'[1] = order[2] /\ \A j \in 1 .. k - 1 : order'[j] = order[j + 1]
    BY <1>1, <2>1
  <2> QED
    BY <1>1, <2>1, <2>2
<1>3. order[2] # head /\ order[2] \in live
  BY <1>1 DEF NodesAccounted
<1>4. ~Dangling'
  BY <1>1, <1>3 DEF Dangling
<1>5. TypeOK'
  BY <1>1, <1>2 DEF TypeOK
<1>6. /\ prev'[head'] = head' /\ next' = next /\ fd' = fd /\ client' = client
      /\ \A n \in Nodes : n # head' => prev'[n] = prev[n]
  BY <1>1 DEF TypeOK
<1>7. PointersSpellOrder'
  <2>1. ASSUME NEW j \in 1 .. k - 1
        PROVE  /\ next[order'[j]] = IF j < k - 1 THEN order'[j + 1] ELSE Null
               /\ j > 1 => prev'[order'[j]] = order'[j - 1]
    <3>1. j + 1 \in 1 .. k /\ order'[j] = order[j + 1] /\ (j < k - 1 <=> j + 1 < k)
      BY <1>1, <1>2
    <3>2. next[order[j + 1]] = IF j + 1 < k THEN order[(j + 1) + 1] ELSE Null
      BY <3>1 DEF PointersSpellOrder
    <3>3. j < k - 1 => order'[j + 1] = order[(j + 1) + 1]
      BY <1>1, <1>2
    <3>4. ASSUME j > 1 PROVE prev'[order'[j]] = order'[j - 1]
      <4>1. order[j + 1] # order[2] /\ order[j + 1] \in Nodes
        BY <1>1, <3>1, <3>4 DEF NodesAccounted, TypeOK
      <4>2. prev[order[j + 1]] = order[j]
        BY <1>1, <3>1, <3>4 DEF PointersSpellOrder
      <4>3. order'[j - 1] = order[j]
        BY <1>1, <1>2, <3>4
      <4> QED
        BY <1>1, <1>6, <3>1, <4>1, <4>2, <4>3
    <3> QED
      BY <3>1, <3>2, <3>3, <3>4
  <2> QED
    BY <1>2, <1>6, <2>1 DEF PointersSpellOrder
<1>8. NodesAccounted'
  <2>1. live = {order[j] : j \in 1 .. k} \cup {head} /\ live' = live \ {head}
    BY DEF NodesAccounted
  <2>2. /\ {order'[j] : j \in 1 .. Len(order')} = {order[j] : j \in 1 .. k} \ {order[i]}
        /\ \A j, m \in 1 .. Len(order') : order'[j] = order'[m] => j = m
    BY WithoutSet
  <2>3. head' \in {order[j] : j \in 1 .. k} \ {head} /\ order[i] = head
    BY <1>1, <1>3
  <2>4. live' = {order'[j] : j \in 1 .. Len(order')} \cup {head'}
    <3> DEFINE S == {order[j] : j \in 1 .. k}
               T == {order'[j] : j \in 1 .. Len(order')}
    <3>1. T = S \ {head} /\ live' = (S \cup {head}) \ {head} /\ head' \in S \ {head}
      BY <2>1, <2>2, <2>3, Zenon
    <3> HIDE DEF S, T, RegistryInv, MoveHead
    <3>2. live' = T \cup {head'}
      BY <3>1
    <3> QED
      BY <3>2 DEF T
  <2> QED
    BY <2>2, <2>4, Zenon DEF NodesAccounted
<1>9. ListMatchesSockets'
  BY <1>4, <1>6, DeleteKeepsOthers
<1>10. UnlistedConnected'
  BY DEF UnlistedConnected, ListMatchesSockets, TypeOK
<1>11. EmptyIsZero' /\ HeadUnmoved' /\ ExitLeavesNoClient'
  BY <1>2 DEF EmptyIsZero, HeadUnmoved, ExitLeavesNoClient
<1> QED
  BY <1>4, <1>5, <1>7, <1>8, <1>9, <1>10, <1>11

(* A node in the middle.  If it is the first one its prev is itself, it is *)
(* freed and fd2clients goes on pointing to it.                            *)
LEMMA StepUnlink ==
  ASSUME RegistryInv, ~Dangling, NEW i \in 1 .. Len(order),
         UnlinkMiddle(i) \/ UnlinkLast(i), order' = Without(i),
         connected' = [connected EXCEPT ![fd[order[i]]] = Null],
         UNCHANGED <<main, unlisted>>, main # "exit"
  PROVE  RegistryInv'
<1> USE RegistryAssumption
<1> DEFINE k == Len(order)
           n == order[i]
<1>1. /\ order \in Seq(Nodes) /\ k \in Nat /\ k >= 1 /\ i \in 1 .. k
      /\ \A j \in 1 .. k : order[j] \in Nodes /\ order[j] # Null
      /\ order[1] = head /\ head \in Nodes /\ n \in Nodes
      /\ prev[head] \in {Null, head}
  BY DEF RegistryInv, TypeOK, PointersSpellOrder
<1>2. /\ head' = head /\ fd' = fd /\ client' = client /\ replaced' = replaced
      /\ live' = live \ {n} /\ prev[n] # Null /\ n \in live
  BY <1>1 DEF UnlinkMiddle, UnlinkLast, RegistryInv, NodesAccounted
<1>3. /\ next[n] # Null => /\ next' = [next EXCEPT ![prev[n]] = next[n]]
                           /\ prev' = [prev EXCEPT ![next[n]] = prev[n]]
      /\ next[n] = Null => /\ next' = [next EXCEPT ![prev[n]] = Null]
                           /\ prev' = prev
      /\ tail' = tail
  BY DEF UnlinkMiddle, UnlinkLast
<1>4. next[n] = IF i < k THEN order[i + 1] ELSE Null
  BY <1>1 DEF RegistryInv, PointersSpellOrder
<1>5. /\ order' \in Seq(Nodes) /\ Len(order') = k - 1
      /\ \A j \in 1 .. k - 1 : order'[j] = IF j < i THEN order[j] ELSE order[j + 1]
  BY WithoutFacts DEF RegistryInv
<1>6. \A j, m \in 1 .. k : order[j] = order[m] => j = m
  BY DEF RegistryInv, NodesAccounted
<1>7. TypeOK'
  <2>1. next' \in [Nodes -> Nodes \cup {Null}] /\ prev' \in [Nodes -> Nodes \cup {Null}]
    BY <1>3 DEF RegistryInv, TypeOK
  <2> QED
    BY <1>2, <1>3, <1>5, <2>1 DEF RegistryInv, TypeOK
<1>8. UnlistedConnected' /\ ExitLeavesNoClient'
  BY DEF RegistryInv, UnlistedConnected, ExitLeavesNoClient, ListMatchesSockets, TypeOK
<1>9. CASE i = 1
  <2>1. n = head /\ Dangling' /\ replaced
    BY <1>1, <1>2, <1>9 DEF Dangling, RegistryInv, HeadUnmoved
  <2>2. PointersSpellOrder' /\ NodesAccounted' /\ ListMatchesSockets' /\ EmptyIsZero'
    BY <2>1 DEF PointersSpellOrder, NodesAccounted, ListMatchesSockets, EmptyIsZero
  <2>3. HeadUnmoved'
    BY <1>2, <2>1 DEF HeadUnmoved
  <2> QED
    BY <1>7, <1>8, <2>2, <2>3 DEF RegistryInv
<1>10. CASE i > 1
  <2>1. i - 1 \in 1 .. k /\ prev[n] = order[i - 1] /\ order[i - 1] # n /\ head # n
    <3>1. i - 1 \in 1 .. k /\ 1 \in 1 .. k /\ i # i - 1 /\ i # 1
      BY <1>1, <1>10
    <3>2. prev[n] = order[i - 1]
      BY <1>1, <1>10 DEF RegistryInv, PointersSpellOrder
    <3> QED
      BY <1>1, <1>6, <3>1, <3>2
  <2>2. ~Dangling' /\ order' # << >> /\ order'[1] = head
    <3>1. head \in live'
      BY <1>2, <2>1 DEF Dangling
    <3>2. Len(order') >= 1 /\ order'[1] = order[1]
      BY <1>1, <1>5, <1>10
    <3> QED
      BY <1>1, <1>2, <1>5, <3>1, <3>2 DEF Dangling
  <2>3. next'[order[i - 1]] = IF i < k THEN order[i + 1] ELSE Null
    BY <1>1, <1>3, <1>4, <2>1 DEF RegistryInv, TypeOK
  <2>4. \A j \in 1 .. k : j # i - 1 => next'[order[j]] = next[order[j]]
    BY <1>1, <1>3, <1>6, <2>1 DEF RegistryInv, TypeOK
  <2>5. i < k => prev'[order[i + 1]] = order[i - 1]
    BY <1>1, <1>3, <1>4, <2>1 DEF RegistryInv, TypeOK
  <2>6. \A j \in 1 .. k : (i < k => j # i + 1) => prev'[order[j]] = prev[order[j]]
    BY <1>1, <1>3, <1>4, <1>6 DEF RegistryInv, TypeOK
  <2>7. ASSUME NEW j \in 1 .. k - 1
        PROVE  /\ next'[order'[j]] = IF j < k - 1 THEN order'[j + 1] ELSE Null
               /\ j > 1 => prev'[order'[j]] = order'[j - 1]
    <3>1. CASE j < i - 1
      <4>1. /\ j \in 1 .. k /\ j + 1 \in 1 .. k - 1 /\ j < k - 1 /\ j < k /\ j # i - 1
            /\ order'[j] = order[j] /\ order'[j + 1] = order[j + 1]
            /\ (i < k => j # i + 1)
        BY <1>1, <1>5, <3>1
      <4>2. next'[order'[j]] = order'[j + 1]
        BY <2>4, <4>1 DEF RegistryInv, PointersSpellOrder
      <4>3. ASSUME j > 1 PROVE prev'[order'[j]] = order'[j - 1]
        <5>1. j - 1 \in 1 .. k - 1 /\ j - 1 < i
          BY <1>1, <3>1, <4>3
        <5>2. order'[j - 1] = order[j - 1]
          BY <1>5, <5>1
        <5>3. prev[order[j]] = order[j - 1]
          BY <4>1, <4>3 DEF RegistryInv, PointersSpellOrder
        <5> QED
          BY <2>6, <4>1, <5>2, <5>3
      <4> QED
        BY <4>1, <4>2, <4>3
    <3>2. CASE j = i - 1
      <4>1. /\ order'[i - 1] = order[i - 1] /\ (i - 1 < k - 1 <=> i < k)
            /\ (i < k => order'[i] = order[i + 1])
            /\ (i - 1) + 1 = i
        BY <1>1, <1>5, <1>10
      <4>2. next'[order'[i - 1]] = IF i - 1 < k - 1 THEN order'[(i - 1) + 1] ELSE Null
        BY <2>3, <4>1
      <4>3. ASSUME i - 1 > 1 PROVE prev'[order'[i - 1]] = order'[(i - 1) - 1]
        <5>1. /\ (i - 1) - 1 \in 1 .. k - 1 /\ order'[(i - 1) - 1] = order[(i - 1) - 1]
              /\ (i < k => i - 1 # i + 1)
          BY <1>1, <1>5, <1>10, <4>3, SMTT(30)
        <5> QED
          BY <2>1, <2>6, <4>1, <4>3, <5>1 DEF RegistryInv, PointersSpellOrder
      <4> QED
        BY <3>2, <4>2, <4>3
    <3>3. CASE j >= i
      <4>1. /\ j + 1 \in 1 .. k /\ order'[j] = order[j + 1] /\ j + 1 # i - 1
            /\ (j < k - 1 <=> j + 1 < k)
            /\ (j < k - 1 => order'[j + 1] = order[(j + 1) + 1])
        BY <1>1, <1>5, <3>3
      <4>2. next'[order'[j]] = IF j < k - 1 THEN order'[j + 1] ELSE Null
        <5>1. next[order[j + 1]] = IF j + 1 < k THEN order[(j + 1) + 1] ELSE Null
          BY <4>1 DEF RegistryInv, PointersSpellOrder
        <5> QED
          BY <2>4, <4>1, <5>1
      <4>3. prev'[order'[j]] = order'[j - 1]
        <5>1. CASE j = i
          <6>1. i < k /\ order'[i - 1] = order[i - 1] /\ order'[i] = order[i + 1]
            BY <1>1, <1>5, <1>10, <5>1
          <6> QED
            BY <2>5, <5>1, <6>1
        <5>2. CASE j > i
          <6>1. /\ j - 1 \in 1 .. k - 1 /\ order'[j - 1] = order[j] /\ j + 1 # i + 1
                /\ j + 1 > 1 /\ (j + 1) - 1 = j
            BY <1>1, <1>5, <1>10, <5>2
          <6>2. prev[order[j + 1]] = order[(j + 1) - 1]
            BY <4>1, <6>1 DEF RegistryInv, PointersSpellOrder
          <6> QED
            BY <2>6, <4>1, <6>1, <6>2
        <5> QED
          BY <1>1, <3>3, <5>1, <5>2
      <4> QED
        BY <4>2, <4>3
    <3> QED
      BY <1>1, <3>1, <3>2, <3>3
  <2>8. PointersSpellOrder'
    <3>1. prev'[head] = prev[head]
      <4>1. 1 \in 1 .. k /\ (i < k => 1 # i + 1)
        BY <1>1, <1>10
      <4> QED
        BY <1>1, <2>6, <4>1
    <3> QED
      BY <1>1, <1>2, <1>5, <2>2, <2>7, <3>1 DEF PointersSpellOrder
  <2>9. NodesAccounted'
    <3>1. /\ {order'[j] : j \in 1 .. Len(order')} = {order[j] : j \in 1 .. k} \ {n}
          /\ \A j, m \in 1 .. Len(order') : order'[j] = order'[m] => j = m
      BY WithoutSet
    <3>2. live = {order[j] : j \in 1 .. k} \cup {head}
      BY DEF RegistryInv, NodesAccounted
    <3>3. live' = {order'[j] : j \in 1 .. Len(order')} \cup {head'}
      BY <1>2, <2>1, <3>1, <3>2, Zenon
    <3> QED
      BY <3>1, <3>3, Zenon DEF NodesAccounted
  <2>10. ListMatchesSockets'
    BY <1>2, <2>2, DeleteKeepsOthers
  <2>11. EmptyIsZero' /\ HeadUnmoved'
    <3>1. ~replaced => prev[head] = Null
      BY DEF RegistryInv, HeadUnmoved
    <3>2. prev'[head] = prev[head]
      <4>1. 1 \in 1 .. k /\ (i < k => 1 # i + 1)
        BY <1>1, <1>10
      <4> QED
        BY <1>1, <2>6, <4>1
    <3> QED
      BY <1>2, <2>2, <3>1, <3>2 DEF EmptyIsZero, HeadUnmoved
  <2> QED
    BY <1>7, <1>8, <2>2, <2>8, <2>9, <2>10, <2>11 DEF RegistryInv
<1> QED
  BY <1>1, <1>9, <1>10

-----------------------------------------------------------------------------
(* The invariant is inductive.                                             *)

LEMMA StepDelete ==
  ASSUME RegistryInv, NEW i \in 1 .. Len(order), ~Dangling, Delete(i),
         connected' = [connected EXCEPT ![fd[order[i]]] = Null],
         UNCHANGED <<main, unlisted>>, main # "exit"
  PROVE  RegistryInv'
<1>1. order' = Without(i)
  BY DEF Delete
<1>2. CASE ResetHead(i)
  BY <1>1, <1>2, StepResetHead
<1>3. CASE MoveHead(i)
  BY <1>1, <1>3, StepMoveHead
<1>4. CASE UnlinkMiddle(i) \/ UnlinkLast(i)
  BY <1>1, <1>4, StepUnlink
<1> QED
  BY <1>2, <1>3, <1>4 DEF Delete

LEMMA StepDestoryLink ==
  ASSUME RegistryInv, DestoryLink PROVE RegistryInv'
<1>1. order # << >>
  BY DEF RegistryInv, EmptyIsZero, DestoryLink
<1>2. 1 \in 1 .. Len(order) /\ order[1] = head
  BY <1>1 DEF DestoryLink, RegistryInv, TypeOK, PointersSpellOrder
<1> QED
  BY <1>2, StepDelete DEF DestoryLink

(* destory stops at fd 0, which only an empty list has at its head.        *)
LEMMA StepExit ==
  ASSUME RegistryInv, Exit PROVE RegistryInv'
<1> USE RegistryAssumption DEF RegistryInv, Exit
<1>1. PointersSpellOrder' /\ NodesAccounted' /\ EmptyIsZero' /\ HeadUnmoved' /\ Dangling' = Dangling
  BY SameList
<1>2. order = << >>
  <2>1. ASSUME order # << >> PROVE FALSE
    <3>1. 1 \in 1 .. Len(order) /\ order[1] = head
      BY <2>1 DEF TypeOK, PointersSpellOrder
    <3> QED
      BY <3>1 DEF ListMatchesSockets
  <2> QED
    BY <2>1
<1>3. ExitLeavesNoClient'
  BY <1>2 DEF ExitLeavesNoClient, ListMatchesSockets
<1>4. TypeOK' /\ ListMatchesSockets' /\ UnlistedConnected'
  BY DEF TypeOK, ListMatchesSockets, UnlistedConnected, listVars, fieldVars, Dangling
<1> QED
  BY <1>1, <1>3, <1>4

LEMMA StepLeaveAccept ==
  ASSUME RegistryInv, LeaveAccept PROVE RegistryInv'
<1> USE DEF RegistryInv, LeaveAccept
<1>1. PointersSpellOrder' /\ NodesAccounted' /\ EmptyIsZero' /\ HeadUnmoved' /\ Dangling' = Dangling
  BY SameList
<1>2. TypeOK' /\ ListMatchesSockets' /\ UnlistedConnected' /\ ExitLeavesNoClient'
  BY DEF TypeOK, ListMatchesSockets, UnlistedConnected, ExitLeavesNoClient,
     listVars, fieldVars, Dangling
<1> QED
  BY <1>1, <1>2

LEMMA StepUnchanged ==
  ASSUME RegistryInv, UNCHANGED vars PROVE RegistryInv'
<1> USE DEF RegistryInv, vars
<1>1. PointersSpellOrder' /\ NodesAccounted' /\ EmptyIsZero' /\ HeadUnmoved' /\ Dangling' = Dangling
  BY SameList
<1>2. TypeOK' /\ ListMatchesSockets' /\ UnlistedConnected' /\ ExitLeavesNoClient'
  BY DEF TypeOK, ListMatchesSockets, UnlistedConnected, ExitLeavesNoClient,
     listVars, fieldVars, Dangling
<1> QED
  BY <1>1, <1>2

LEMMA NextRegistry ==
  ASSUME RegistryInv, [Next]_vars PROVE RegistryInv'
<1>1. ASSUME NEW f \in Fds, NEW c \in Clients, Accept(f, c) PROVE RegistryInv'
  BY <1>1, StepFillHead, StepAppendNode DEF Accept
<1>2. ASSUME NEW f \in Fds, NEW c \in Clients, AcceptUnlisted(f, c) PROVE RegistryInv'
  BY <1>2, StepAcceptUnlisted
<1>3. ASSUME NEW f \in Fds, CloseUnknown(f) PROVE RegistryInv'
  BY <1>3, StepCloseUnknown
<1>4. ASSUME NEW f \in Fds, CloseClient(f) PROVE RegistryInv'
  BY <1>4, StepDelete DEF CloseClient, FreeAndDelete
<1>5. ASSUME NEW i \in 1 .. Len(order), CloseClient2(i) PROVE RegistryInv'
  BY <1>5, StepDelete DEF CloseClient2, FreeAndDelete
<1>6. CASE LeaveAccept
  BY <1>6, StepLeaveAccept
<1>7. CASE DestoryLink
  BY <1>7, StepDestoryLink
<1>8. CASE Exit
  BY <1>8, StepExit
<1>9. CASE Stopped \/ UNCHANGED vars
  BY <1>9, StepUnchanged DEF Stopped
<1> QED
  BY <1>1, <1>2, <1>3, <1>4, <1>5, <1>6, <1>7, <1>8, <1>9 DEF Next

(* RegistryInv holds in every reachable state.                             *)
LEMMA RegistryInvariant == Spec => []RegistryInv
<1>1. Init => RegistryInv
  BY InitRegistry
<1>2. RegistryInv /\ [Next]_vars => RegistryInv'
  BY NextRegistry
<1> QED
  BY <1>1, <1>2, PTL DEF Spec

-----------------------------------------------------------------------------
(* The theorems.                                                           *)

(* The fields of the list keep their types (spider_tcp_server.h:94-153).   *)
THEOREM TypeCorrect == Spec => []TypeOK
<1>1. RegistryInv => TypeOK
  BY DEF RegistryInv
<1> QED
  BY <1>1, RegistryInvariant, PTL

(* Until fd2clients dangles, next and prev spell the list in both          *)
(* directions (spider_function.c:80-139).                                  *)
THEOREM PointersCorrect == Spec => []PointersSpellOrder
<1>1. RegistryInv => PointersSpellOrder
  BY DEF RegistryInv
<1> QED
  BY <1>1, RegistryInvariant, PTL

(* Until fd2clients dangles, no node is leaked, freed while linked, or     *)
(* linked twice (spider_function.c:80-139).                                *)
THEOREM NoNodeLeaks == Spec => []NodesAccounted
<1>1. RegistryInv => NodesAccounted
  BY DEF RegistryInv
<1> QED
  BY <1>1, RegistryInvariant, PTL

(* Until fd2clients dangles, the list maps exactly the sockets it accepted *)
(* to their own clients (spider_function.c:80-226).                        *)
THEOREM ListIsTheConnections == Spec => []ListMatchesSockets
<1>1. RegistryInv => ListMatchesSockets
  BY DEF RegistryInv
<1> QED
  BY <1>1, RegistryInvariant, PTL

(* fd2clients dangles only after it was moved to a second node             *)
(* (spider_function.c:115).                                                *)
THEOREM OnlyReplacementBreaks == Spec => []BreaksOnlyAfterReplacement
<1>1. RegistryInv => BreaksOnlyAfterReplacement
  BY DEF RegistryInv, HeadUnmoved, BreaksOnlyAfterReplacement
<1> QED
  BY <1>1, RegistryInvariant, PTL

(* destory exits only with no listed client left (spider_tcp_server.c:     *)
(* 279-283).                                                               *)
THEOREM ExitIsClean == Spec => []ExitLeavesNoClient
<1>1. RegistryInv => ExitLeavesNoClient
  BY DEF RegistryInv
<1> QED
  BY <1>1, RegistryInvariant, PTL

(* The step that makes fd2clients dangle frees the node it points to, and  *)
(* that node's prev is itself (spider_function.c:117).                     *)
THEOREM BreaksBySelfPrev == Spec => FreedUnderHead
<1> DEFINE A == ~Dangling /\ Dangling' => head' = head /\ prev[head] = head
<1>1. RegistryInv /\ [Next]_vars => [A]_vars
  <2> SUFFICES ASSUME RegistryInv, Next, ~Dangling, Dangling'
               PROVE  head' = head /\ prev[head] = head
    OBVIOUS
  <2>1. ASSUME NEW i \in 1 .. Len(order), Delete(i)
        PROVE  head' = head /\ prev[head] = head
    <3>1. /\ order \in Seq(Nodes) /\ order # << >> /\ head = order[1] /\ head \in live
          /\ prev[head] \in {Null, head}
      BY DEF RegistryInv, TypeOK, PointersSpellOrder, Dangling
    <3>2. CASE ResetHead(i)
      BY <3>2 DEF ResetHead, Dangling
    <3>3. CASE MoveHead(i)
      <4>1. prev[order[i]] = Null /\ next[head] # Null /\ head' = next[head] /\ live' = live \ {head}
        BY <3>3 DEF MoveHead
      <4>2. next[head] = order[2] /\ 2 \in 1 .. Len(order) /\ 1 \in 1 .. Len(order)
        BY <3>1, <4>1, OnlyHeadHasNoPrev
      <4>3. order[2] \in live /\ order[2] # order[1]
        BY <4>2 DEF RegistryInv, NodesAccounted
      <4> QED
        BY <3>1, <4>1, <4>2, <4>3 DEF Dangling
    <3>4. CASE UnlinkMiddle(i) \/ UnlinkLast(i)
      <4>1. prev[order[i]] # Null /\ head' = head /\ live' = live \ {order[i]}
        BY <3>4 DEF UnlinkMiddle, UnlinkLast
      <4>2. order[i] = head
        BY <3>1, <4>1 DEF Dangling
      <4> QED
        BY <3>1, <4>1, <4>2
    <3> QED
      BY <2>1, <3>2, <3>3, <3>4 DEF Delete
  <2>2. CASE \E f \in Fds : CloseClient(f)
    BY <2>1, <2>2 DEF CloseClient, FreeAndDelete
  <2>3. CASE \E i \in 1 .. Len(order) : CloseClient2(i)
    BY <2>1, <2>3 DEF CloseClient2, FreeAndDelete
  <2>4. CASE DestoryLink
    <3>1. order # << >>
      BY <2>4 DEF RegistryInv, EmptyIsZero, DestoryLink
    <3>2. 1 \in 1 .. Len(order)
      BY <3>1 DEF RegistryInv, TypeOK
    <3> QED
      BY <2>1, <2>4, <3>2 DEF DestoryLink
  <2>5. CASE \E f \in Fds, c \in Clients : Accept(f, c)
    BY <2>5 DEF Accept, FillHead, AppendNode, Dangling
  <2>6. CASE \/ \E f \in Fds, c \in Clients : AcceptUnlisted(f, c)
             \/ \E f \in Fds : CloseUnknown(f)
             \/ LeaveAccept \/ Exit \/ Stopped
    BY <2>6 DEF AcceptUnlisted, CloseUnknown, LeaveAccept, Exit, Stopped, listVars, vars, Dangling
  <2> QED
    BY <2>2, <2>3, <2>4, <2>5, <2>6 DEF Next
<1> QED
  BY <1>1, RegistryInvariant, PTL DEF Spec, FreedUnderHead

=============================================================================
