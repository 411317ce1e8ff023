------------------------- MODULE CacheClientsProofs -------------------------
(***************************************************************************)
(* Proofs about PThreadEval and ThreadedExecutor: any number of them, of   *)
(* tasks and of addresses, whatever address operator new returns.          *)
(***************************************************************************)
EXTENDS CacheClients, FiniteSetTheorems, TLAPS

(* Tasks that have left the cache and that their client has still to delete. *)
Held(c) == collected[c] \ visited[c]

OnHeap(c) == {a \in heap : owner[a] = c}

(* The cache only has tasks that are not deleted. *)
CacheOnHeap == \A a \in Addresses : InCache(a) => a \in heap

HeldExact ==
  \A c \in Clients : \A a \in Held(c) : a \in heap /\ owner[a] = c /\ ~InCache(a)

(* What a client is waiting for is in the cache, and is its own; in the middle of joinAll the
   addresses that have been collected may belong to anybody. *)
QueuedOwn ==
  \A c \in Clients : \A a \in queued[c] :
    at[c] # "each" \/ a \notin collected[c] => InCache(a) /\ owner[a] = c

(* joinAll has something in finished only in its for_each; an executor is in no joinAll. *)
Phases ==
  /\ \A e \in Evals : at[e] # "each" => collected[e] = {}
  /\ \A e \in Evals : visited[e] \subseteq collected[e]
  /\ \A x \in Executors : at[x] = "app" /\ visited[x] = {}

(* Every task that is made is on the heap until its result has been received. *)
Accounted ==
  /\ IsFiniteSet(heap)
  /\ \A c \in Clients : made[c] - received[c] = Cardinality(OnHeap(c))

ClientsKept == TypeOK /\ CacheOnHeap /\ HeldExact /\ QueuedOwn /\ Phases /\ Accounted

(* A client forgets nothing that the cache has for it. *)
NoneForgotten ==
  \A e \in Clients : \A a \in Addresses :
    owner[a] = e /\ InCache(a) => a \in queued[e] /\ a \notin collected[e]

-----------------------------------------------------------------------------
(* Counting the tasks on the heap *)

LEMMA HeapCounts ==
  ASSUME Accounted, NEW c \in Clients
  PROVE  IsFiniteSet(OnHeap(c)) /\ Cardinality(OnHeap(c)) \in Nat
  <1>1. OnHeap(c) \subseteq heap
    BY DEF OnHeap
  <1>2. IsFiniteSet(OnHeap(c))
    BY <1>1, FS_Subset DEF Accounted
  <1> QED
    BY <1>2, FS_CardinalityType

(* The heap of a client that is not touched. *)
LEMMA AccountedStays ==
  ASSUME Accounted, UNCHANGED <<heap, owner, made, received>>
  PROVE  Accounted'
  BY DEF Accounted, OnHeap

LEMMA AccountedAdds ==
  ASSUME TypeOK, Accounted, NEW c \in Clients, NEW a \in Addresses, a \notin heap,
         heap' = heap \cup {a}, owner' = [owner EXCEPT ![a] = c],
         made' = [made EXCEPT ![c] = made[c] + 1], UNCHANGED received
  PROVE  Accounted'
  <1> USE ClientAssumption DEF TypeOK, CacheTypeOK
  <1>1. IsFiniteSet(heap')
    BY FS_AddElement DEF Accounted
  <1>2. ASSUME NEW d \in Clients, d # c PROVE made'[d] - received'[d] = Cardinality(OnHeap(d)')
    <2>1. OnHeap(d)' = OnHeap(d)
      BY <1>2 DEF OnHeap
    <2> QED
      BY <1>2, <2>1 DEF Accounted
  <1>3. made'[c] - received'[c] = Cardinality(OnHeap(c)')
    <2>1. OnHeap(c)' = OnHeap(c) \cup {a} /\ a \notin OnHeap(c)
      BY DEF OnHeap
    <2>2. Cardinality(OnHeap(c)') = Cardinality(OnHeap(c)) + 1
      BY <2>1, HeapCounts, FS_AddElement
    <2>3. made'[c] = made[c] + 1 /\ received'[c] = received[c] /\ made[c] \in Int /\ received[c] \in Int
      OBVIOUS
    <2>4. made[c] - received[c] = Cardinality(OnHeap(c))
      BY DEF Accounted
    <2> QED
      BY <2>2, <2>3, <2>4
  <1> QED
    BY <1>1, <1>2, <1>3 DEF Accounted

LEMMA AccountedDeletes ==
  ASSUME TypeOK, Accounted, NEW c \in Clients, NEW a \in Addresses, a \in heap, owner[a] = c,
         heap' = heap \ {a}, received' = [received EXCEPT ![c] = received[c] + 1],
         UNCHANGED <<owner, made>>
  PROVE  Accounted' /\ received'[c] <= made[c]
  <1> USE ClientAssumption DEF TypeOK, CacheTypeOK
  <1>1. IsFiniteSet(heap')
    BY FS_RemoveElement DEF Accounted
  <1>2. ASSUME NEW d \in Clients, d # c PROVE made'[d] - received'[d] = Cardinality(OnHeap(d)')
    <2>1. OnHeap(d)' = OnHeap(d)
      BY <1>2 DEF OnHeap
    <2> QED
      BY <1>2, <2>1 DEF Accounted
  <1>3. /\ made'[c] - received'[c] = Cardinality(OnHeap(c)')
        /\ received'[c] <= made[c]
    <2>1. OnHeap(c)' = OnHeap(c) \ {a} /\ a \in OnHeap(c)
      BY DEF OnHeap
    <2>2. /\ Cardinality(OnHeap(c)') = Cardinality(OnHeap(c)) - 1
          /\ Cardinality(OnHeap(c)') \in Nat
      BY <2>1, HeapCounts, FS_RemoveElement, FS_CardinalityType
    <2>3. received'[c] = received[c] + 1 /\ made[c] \in Int /\ received[c] \in Int
      OBVIOUS
    <2>4. made[c] - received[c] = Cardinality(OnHeap(c))
      BY DEF Accounted
    <2>5. Cardinality(OnHeap(c)) \in Nat
      BY HeapCounts
    <2> QED
      BY <2>2, <2>3, <2>4, <2>5
  <1> QED
    BY <1>1, <1>2, <1>3 DEF Accounted

-----------------------------------------------------------------------------
(* One lemma for each kind of step *)

LEMMA SubmitKeeps ==
  ASSUME ClientsKept, NEW c \in Clients, NEW fresh, fresh \subseteq Addresses, Submit(c, fresh)
  PROVE  /\ ClientsKept'
         /\ (at[c] = "each" => fresh \cap collected[c] = {}) /\ NoneForgotten => NoneForgotten'
  <1> USE ClientAssumption DEF ClientsKept
  <1>1. PICK a \in fresh :
          /\ AddNew(a) /\ queued' = [queued EXCEPT ![c] = queued[c] \cup {a}]
          /\ owner' = [owner EXCEPT ![a] = c]
    BY DEF Submit
  <1>2. /\ a \in Addresses /\ a \notin heap /\ heap' = heap \cup {a}
        /\ status' = [status EXCEPT ![a] = "pending"]
        /\ UNCHANGED <<collected, visited, at, received>>
        /\ made' = [made EXCEPT ![c] = made[c] + 1] /\ made[c] < MaxTasks
    BY <1>1 DEF Submit, AddNew
  <1>3. ~InCache(a) /\ \A d \in Clients : a \notin Held(d)
    BY <1>2 DEF CacheOnHeap, HeldExact
  <1>4. \A b \in Addresses : b # a => (InCache(b)' <=> InCache(b)) /\ owner'[b] = owner[b]
    BY <1>1, <1>2 DEF InCache, TypeOK, CacheTypeOK
  <1>5. InCache(a)' /\ owner'[a] = c
    BY <1>1, <1>2 DEF InCache, TypeOK, CacheTypeOK
  <1>6. \A d \in Clients : queued'[d] = IF d = c THEN queued[c] \cup {a} ELSE queued[d]
    BY <1>1 DEF TypeOK
  <1>7. TypeOK'
    <2>1. \A d \in Clients : made'[d] \in 0 .. MaxTasks
      BY <1>2 DEF TypeOK
    <2>2. made' \in [Clients -> 0 .. MaxTasks]
      BY <1>2, <2>1 DEF TypeOK
    <2> QED
      BY <1>1, <1>2, <2>2 DEF TypeOK, CacheTypeOK
  <1>8. CacheOnHeap'
    BY <1>2, <1>4 DEF CacheOnHeap
  <1>9. HeldExact'
    <2>1. \A d \in Clients : Held(d)' = Held(d) /\ Held(d) \subseteq Addresses
      BY <1>2 DEF Held, TypeOK
    <2> QED
      BY <1>2, <1>3, <1>4, <2>1 DEF HeldExact
  <1>10. QueuedOwn'
    <2> SUFFICES ASSUME NEW d \in Clients, NEW b \in queued'[d],
                        at'[d] # "each" \/ b \notin collected'[d]
                 PROVE  InCache(b)' /\ owner'[b] = d
      BY DEF QueuedOwn
    <2>1. CASE b \in queued[d]
      <3>1. InCache(b) /\ owner[b] = d /\ b \in Addresses
        BY <1>2, <2>1 DEF QueuedOwn, TypeOK
      <3> QED
        BY <1>3, <1>4, <3>1
    <2>2. CASE b \notin queued[d]
      BY <1>5, <1>6, <2>2
    <2> QED
      BY <2>1, <2>2
  <1>11. Phases'
    BY <1>2 DEF Phases
  <1>12. Accounted'
    BY <1>1, <1>2, AccountedAdds
  <1>13. ASSUME at[c] = "each" => fresh \cap collected[c] = {}, NoneForgotten
         PROVE  NoneForgotten'
    <2>1. a \notin collected[c]
      <3>1. CASE at[c] = "each"
        BY <1>13, <3>1
      <3>2. CASE c \in Evals /\ at[c] # "each"
        BY <3>2 DEF Phases
      <3>3. CASE c \in Executors
        BY <1>3, <3>3 DEF Phases, Held
      <3> QED
        BY <3>1, <3>2, <3>3 DEF Clients
    <2>2. a \in queued'[c]
      BY <1>6
    <2>3. ASSUME NEW d \in Clients, NEW b \in Addresses, owner'[b] = d, InCache(b)'
          PROVE  b \in queued'[d] /\ b \notin collected'[d]
      <3>1. CASE b = a
        BY <1>2, <1>5, <2>1, <2>2, <2>3, <3>1
      <3>2. CASE b # a
        BY <1>2, <1>4, <1>6, <1>13, <2>3, <3>2 DEF NoneForgotten
      <3> QED
        BY <3>1, <3>2
    <2> QED
      BY <2>3 DEF NoneForgotten
  <1> QED
    BY <1>7, <1>8, <1>9, <1>10, <1>11, <1>12, <1>13

LEMMA CacheKeeps ==
  ASSUME ClientsKept, NEW a \in Addresses, CacheStep(a)
  PROVE  ClientsKept' /\ (NoneForgotten => NoneForgotten')
  <1>1. /\ UNCHANGED <<heap, clientVars>>
        /\ status[a] \in {"pending", "running"}
        /\ \E v \in {"running", "finished"} : status' = [status EXCEPT ![a] = v]
    BY DEF CacheStep, Run, Finish
  <1>2. \A b \in Addresses : InCache(b)' <=> InCache(b)
    BY <1>1 DEF InCache, ClientsKept, TypeOK, CacheTypeOK
  <1>3. TypeOK'
    BY <1>1 DEF ClientsKept, TypeOK, CacheTypeOK, clientVars
  <1>4. CacheOnHeap'
    BY <1>1, <1>2 DEF ClientsKept, CacheOnHeap
  <1>5. \A c \in Clients : queued[c] \subseteq Addresses /\ Held(c) \subseteq Addresses
    BY DEF ClientsKept, TypeOK, Held
  <1>6. HeldExact' /\ QueuedOwn' /\ Phases'
    BY <1>1, <1>2, <1>5 DEF ClientsKept, HeldExact, Held, QueuedOwn, Phases, clientVars
  <1>7. Accounted'
    BY <1>1, AccountedStays DEF ClientsKept, clientVars
  <1>8. NoneForgotten => NoneForgotten'
    BY <1>1, <1>2 DEF NoneForgotten, clientVars
  <1> QED
    BY <1>3, <1>4, <1>6, <1>7, <1>8 DEF ClientsKept

(* deleteTasks, and recv with results left over: a held task is deleted. *)
LEMMA DeleteKeeps ==
  ASSUME ClientsKept, NEW c \in Clients, NEW a \in Held(c), Delete(a),
         received' = [received EXCEPT ![c] = received[c] + 1],
         UNCHANGED <<queued, at, made, owner>>,
         collected' \in [Clients -> SUBSET Addresses], visited' \in [Clients -> SUBSET Addresses],
         \A d \in Clients : d # c => collected'[d] = collected[d] /\ visited'[d] = visited[d],
         \/ collected'[c] = collected[c] /\ visited'[c] = visited[c] \cup {a}
         \/ collected'[c] = collected[c] \ {a} /\ visited'[c] = visited[c] /\ at[c] # "each",
         Phases'
  PROVE  ClientsKept' /\ (NoneForgotten => NoneForgotten')
  <1> USE DEF ClientsKept
  <1>1. heap' = heap \ {a} /\ UNCHANGED status /\ a \in Addresses
    BY DEF Delete, Held, TypeOK
  <1>2. a \in heap /\ owner[a] = c /\ ~InCache(a)
    BY DEF HeldExact
  <1>3. Accounted' /\ received'[c] <= made[c]
    BY <1>1, <1>2, AccountedDeletes
  <1>4. TypeOK'
    <2>1. received'[c] \in 0 .. MaxTasks
      BY <1>3, ClientAssumption DEF TypeOK
    <2>2. received' \in [Clients -> 0 .. MaxTasks]
      BY <2>1 DEF TypeOK
    <2> QED
      BY <1>1, <2>2 DEF TypeOK, CacheTypeOK
  <1>5. CacheOnHeap'
    BY <1>1, <1>2 DEF CacheOnHeap, InCache
  <1>6. HeldExact'
    <2> SUFFICES ASSUME NEW d \in Clients, NEW b \in Held(d)'
                 PROVE  b \in heap' /\ owner'[b] = d /\ ~InCache(b)'
      BY DEF HeldExact
    <2>1. b \in Held(d) /\ (d = c => b # a)
      BY DEF Held
    <2>2. b \in heap /\ owner[b] = d /\ ~InCache(b)
      BY <2>1 DEF HeldExact
    <2>3. b # a
      BY <1>2, <2>1, <2>2
    <2> QED
      BY <1>1, <2>2, <2>3 DEF InCache
  <1>7. QueuedOwn'
    BY <1>1 DEF QueuedOwn, InCache
  <1>8. NoneForgotten => NoneForgotten'
    BY <1>1 DEF NoneForgotten, InCache
  <1> QED
    BY <1>3, <1>4, <1>5, <1>6, <1>7, <1>8

LEMMA DeleteTaskKeeps ==
  ASSUME ClientsKept, NEW e \in Evals, DeleteTask(e)
  PROVE  ClientsKept' /\ (NoneForgotten => NoneForgotten')
  <1>1. PICK a \in Held(e) : Delete(a) /\ visited' = [visited EXCEPT ![e] = visited[e] \cup {a}]
    BY DEF DeleteTask, Held
  <1>2. /\ received' = [received EXCEPT ![e] = received[e] + 1]
        /\ UNCHANGED <<queued, collected, at, made, owner>>
    BY DEF DeleteTask
  <1>3. e \in Clients /\ a \in collected[e] /\ a \in Addresses /\ e \notin Executors
    BY ClientAssumption DEF Clients, Held, ClientsKept, TypeOK
  <1>4. visited' \in [Clients -> SUBSET Addresses] /\ collected' \in [Clients -> SUBSET Addresses]
    BY <1>1, <1>2, <1>3 DEF ClientsKept, TypeOK
  <1>5. /\ \A d \in Clients : d # e => collected'[d] = collected[d] /\ visited'[d] = visited[d]
        /\ collected'[e] = collected[e] /\ visited'[e] = visited[e] \cup {a}
    BY <1>1, <1>2, <1>3 DEF ClientsKept, TypeOK
  <1>6. Phases'
    BY <1>2, <1>3, <1>5 DEF ClientsKept, Phases, Clients
  <1> QED
    BY <1>1, <1>2, <1>3, <1>4, <1>5, <1>6, DeleteKeeps

LEMMA RecvLeftOverKeeps ==
  ASSUME ClientsKept, NEW x \in Executors, RecvLeftOver(x)
  PROVE  ClientsKept' /\ (NoneForgotten => NoneForgotten')
  <1>1. PICK a \in collected[x] :
          Delete(a) /\ collected' = [collected EXCEPT ![x] = collected[x] \ {a}]
    BY DEF RecvLeftOver
  <1>2. /\ received' = [received EXCEPT ![x] = received[x] + 1]
        /\ UNCHANGED <<queued, visited, at, made, owner>>
    BY DEF RecvLeftOver
  <1>3. x \in Clients /\ a \in Held(x) /\ at[x] # "each" /\ x \notin Evals
    BY ClientAssumption DEF Clients, Held, ClientsKept, Phases
  <1>4. visited' \in [Clients -> SUBSET Addresses] /\ collected' \in [Clients -> SUBSET Addresses]
    BY <1>1, <1>2, <1>3 DEF ClientsKept, TypeOK
  <1>5. /\ \A d \in Clients : d # x => collected'[d] = collected[d] /\ visited'[d] = visited[d]
        /\ collected'[x] = collected[x] \ {a} /\ visited'[x] = visited[x]
    BY <1>1, <1>2, <1>3 DEF ClientsKept, TypeOK
  <1>6. Phases'
    BY <1>2, <1>3, <1>5 DEF ClientsKept, Phases, Clients
  <1> QED
    BY <1>1, <1>2, <1>3, <1>4, <1>5, <1>6, DeleteKeeps

(* waitForTasks has returned tasks of the client that asked: only their status changes. *)
LEMMA TakenOut ==
  ASSUME ClientsKept, NEW c \in Clients, at[c] # "each",
         status' = [b \in Addresses |-> IF b \in FinishedAmong(queued[c]) THEN "out" ELSE status[b]]
  PROVE  /\ \A b \in FinishedAmong(queued[c]) :
              b \in Addresses /\ owner[b] = c /\ InCache(b) /\ b \in heap /\ ~InCache(b)'
         /\ \A b \in Addresses : b \notin FinishedAmong(queued[c]) => (InCache(b)' <=> InCache(b))
         /\ status' \in [Addresses -> {"out", "pending", "running", "finished"}]
  <1>1. ASSUME NEW b \in FinishedAmong(queued[c])
        PROVE  b \in Addresses /\ owner[b] = c /\ InCache(b) /\ b \in heap /\ ~InCache(b)'
    <2>1. b \in queued[c] /\ b \in Addresses
      BY DEF FinishedAmong, ClientsKept, TypeOK
    <2>2. InCache(b) /\ owner[b] = c
      BY <2>1 DEF ClientsKept, QueuedOwn
    <2> QED
      BY <2>1, <2>2 DEF ClientsKept, CacheOnHeap, InCache
  <1>2. ASSUME NEW b \in Addresses, b \notin FinishedAmong(queued[c])
        PROVE  InCache(b)' <=> InCache(b)
    BY <1>2 DEF InCache
  <1>3. status' \in [Addresses -> {"out", "pending", "running", "finished"}]
    BY DEF ClientsKept, TypeOK, CacheTypeOK
  <1> QED
    BY <1>1, <1>2, <1>3

LEMMA GatherKeeps ==
  ASSUME ClientsKept, NEW e \in Evals, Gather(e)
  PROVE  ClientsKept' /\ (NoneForgotten => NoneForgotten')
  <1> USE DEF ClientsKept
  <1> DEFINE F == FinishedAmong(queued[e])
  <1>1. /\ at[e] = "join" /\ at' = [at EXCEPT ![e] = "each"]
        /\ status' = [b \in Addresses |-> IF b \in F THEN "out" ELSE status[b]]
        /\ UNCHANGED <<heap, queued, visited, made, owner, received>>
        /\ collected' = [collected EXCEPT ![e] = F]
    BY DEF Gather, WaitForTasks
  <1>2. e \in Clients /\ collected[e] = {} /\ visited[e] = {}
    BY <1>1 DEF Clients, Phases
  <1>3. /\ \A b \in F : b \in Addresses /\ owner[b] = e /\ InCache(b) /\ b \in heap /\ ~InCache(b)'
        /\ \A b \in Addresses : b \notin F => (InCache(b)' <=> InCache(b))
        /\ status' \in [Addresses -> {"out", "pending", "running", "finished"}]
    BY <1>1, <1>2, TakenOut
  <1> HIDE DEF F
  <1>4. /\ \A d \in Clients : d # e => collected'[d] = collected[d] /\ at'[d] = at[d]
        /\ collected'[e] = F /\ at'[e] = "each"
    BY <1>1, <1>2 DEF TypeOK
  <1>5. TypeOK'
    BY <1>1, <1>3 DEF TypeOK, CacheTypeOK
  <1>6. CacheOnHeap'
    BY <1>1, <1>3 DEF CacheOnHeap
  <1>7. HeldExact'
    <2> SUFFICES ASSUME NEW d \in Clients, NEW b \in Held(d)'
                 PROVE  b \in heap /\ owner[b] = d /\ ~InCache(b)'
      BY <1>1 DEF HeldExact
    <2>1. CASE d = e
      BY <1>3, <1>4, <2>1 DEF Held
    <2>2. CASE d # e
      <3>1. b \in Held(d) /\ b \in Addresses
        BY <1>1, <1>4, <2>2 DEF Held, TypeOK
      <3> QED
        BY <1>3, <3>1 DEF HeldExact
    <2> QED
      BY <2>1, <2>2
  <1>8. QueuedOwn'
    <2> SUFFICES ASSUME NEW d \in Clients, NEW b \in queued[d],
                        at'[d] # "each" \/ b \notin collected'[d]
                 PROVE  InCache(b)' /\ owner[b] = d
      BY <1>1 DEF QueuedOwn
    <2>1. InCache(b) /\ owner[b] = d /\ b \in Addresses
      <3>1. CASE d = e
        BY <1>1, <1>2, <3>1 DEF QueuedOwn, TypeOK
      <3>2. CASE d # e
        BY <1>4, <3>2 DEF QueuedOwn, TypeOK
      <3> QED
        BY <3>1, <3>2
    <2>2. b \notin F
      BY <1>3, <1>4, <2>1
    <2> QED
      BY <1>3, <2>1, <2>2
  <1>9. Phases'
    BY <1>1, <1>2, <1>4, ClientAssumption DEF Phases, Clients
  <1>10. Accounted'
    BY <1>1, AccountedStays
  <1>11. NoneForgotten => NoneForgotten'
    BY <1>1, <1>3, <1>4 DEF NoneForgotten
  <1> QED
    BY <1>5, <1>6, <1>7, <1>8, <1>9, <1>10, <1>11

LEMMA RecvWaitsKeeps ==
  ASSUME ClientsKept, NEW x \in Executors, RecvWaits(x)
  PROVE  ClientsKept' /\ (NoneForgotten => NoneForgotten')
  <1> USE DEF ClientsKept
  <1> DEFINE F == FinishedAmong(queued[x])
  <1>1. PICK a \in F : /\ collected' = [collected EXCEPT ![x] = F \ {a}]
                       /\ queued' = [queued EXCEPT ![x] = queued[x] \ F]
                       /\ heap' = heap \ {a}
                       /\ status' = [b \in Addresses |-> IF b \in F THEN "out" ELSE status[b]]
    BY DEF RecvWaits
  <1>2. /\ UNCHANGED <<visited, at, made, owner>>
        /\ received' = [received EXCEPT ![x] = received[x] + 1]
    BY DEF RecvWaits
  <1>3. x \in Clients /\ at[x] # "each" /\ visited[x] = {} /\ x \notin Evals
    BY ClientAssumption DEF Clients, Phases
  <1>4. /\ \A b \in F : b \in Addresses /\ owner[b] = x /\ InCache(b) /\ b \in heap /\ ~InCache(b)'
        /\ \A b \in Addresses : b \notin F => (InCache(b)' <=> InCache(b))
        /\ status' \in [Addresses -> {"out", "pending", "running", "finished"}]
    BY <1>1, <1>3, TakenOut
  <1> HIDE DEF F
  <1>5. /\ \A d \in Clients : d # x => collected'[d] = collected[d] /\ queued'[d] = queued[d]
        /\ collected'[x] = F \ {a} /\ queued'[x] = queued[x] \ F
    BY <1>1, <1>3 DEF TypeOK
  <1>6. Accounted' /\ received'[x] <= made[x]
    BY <1>1, <1>2, <1>3, <1>4, AccountedDeletes
  <1>7. TypeOK'
    <2>1. received'[x] \in 0 .. MaxTasks
      BY <1>2, <1>3, <1>6, ClientAssumption DEF TypeOK
    <2>2. received' \in [Clients -> 0 .. MaxTasks]
      BY <1>2, <2>1 DEF TypeOK
    <2> QED
      BY <1>1, <1>2, <1>4, <2>2 DEF TypeOK, CacheTypeOK
  <1>8. CacheOnHeap'
    BY <1>1, <1>4 DEF CacheOnHeap
  <1>9. HeldExact'
    <2> SUFFICES ASSUME NEW d \in Clients, NEW b \in Held(d)'
                 PROVE  b \in heap' /\ owner[b] = d /\ ~InCache(b)'
      BY <1>2 DEF HeldExact
    <2>1. CASE d = x
      BY <1>1, <1>4, <1>5, <2>1 DEF Held
    <2>2. CASE d # x
      <3>1. b \in Held(d) /\ b \in Addresses
        BY <1>2, <1>5, <2>2 DEF Held, TypeOK
      <3>2. b \in heap /\ owner[b] = d /\ ~InCache(b)
        BY <3>1 DEF HeldExact
      <3> QED
        BY <1>1, <1>4, <2>2, <3>1, <3>2
    <2> QED
      BY <2>1, <2>2
  <1>10. QueuedOwn'
    <2> SUFFICES ASSUME NEW d \in Clients, NEW b \in queued'[d],
                        at[d] # "each" \/ b \notin collected'[d]
                 PROVE  InCache(b)' /\ owner[b] = d
      BY <1>2 DEF QueuedOwn
    <2>1. b \in queued[d] /\ b \in Addresses /\ (d = x => b \notin F)
      BY <1>3, <1>5 DEF TypeOK
    <2>2. InCache(b) /\ owner[b] = d
      BY <1>3, <1>5, <2>1 DEF QueuedOwn
    <2>3. b \notin F
      BY <1>4, <2>1, <2>2
    <2> QED
      BY <1>4, <2>1, <2>2, <2>3
  <1>11. Phases'
    BY <1>2, <1>3, <1>5, ClientAssumption DEF Phases, Clients
  <1>12. NoneForgotten => NoneForgotten'
    BY <1>2, <1>4, <1>5 DEF NoneForgotten
  <1> QED
    BY <1>6, <1>7, <1>8, <1>9, <1>10, <1>11, <1>12

(* The set difference at the end of a turn of joinAll, and the turns themselves. *)
LEMMA JoinKeeps ==
  ASSUME ClientsKept, NEW e \in Evals, JoinAll(e) \/ Gathered(e) \/ Joined(e)
  PROVE  ClientsKept' /\ (NoneForgotten => NoneForgotten')
  <1> USE DEF ClientsKept
  <1>1. /\ UNCHANGED <<heap, status, made, owner, received>> /\ e \in Clients /\ e \notin Executors
    BY ClientAssumption DEF JoinAll, Gathered, Joined, cache, Clients
  <1>2. /\ \A d \in Clients : d # e => /\ queued'[d] = queued[d] /\ collected'[d] = collected[d]
                                       /\ visited'[d] = visited[d] /\ at'[d] = at[d]
        /\ collected'[e] = {} /\ visited'[e] = {} /\ at'[e] # "each"
        /\ queued'[e] = queued[e] \ collected[e]
        /\ Held(e) = {}
    <2>1. CASE Gathered(e)
      BY <1>1, <2>1 DEF Gathered, TypeOK, Held
    <2>2. CASE JoinAll(e) \/ Joined(e)
      <3>1. /\ UNCHANGED <<queued, collected, visited>> /\ at[e] # "each"
            /\ at'[e] # "each" /\ \A d \in Clients : d # e => at'[d] = at[d]
        BY <1>1, <2>2 DEF JoinAll, Joined, TypeOK
      <3>2. collected[e] = {} /\ visited[e] = {}
        BY <3>1 DEF Phases
      <3> QED
        BY <1>1, <3>1, <3>2 DEF Held
    <2> QED
      BY <2>1, <2>2
  <1>3. TypeOK'
    BY <1>1 DEF JoinAll, Gathered, Joined, TypeOK, CacheTypeOK
  <1>4. CacheOnHeap'
    BY <1>1 DEF CacheOnHeap, InCache
  <1>5. HeldExact'
    BY <1>1, <1>2 DEF HeldExact, Held, InCache
  <1>6. QueuedOwn'
    <2> SUFFICES ASSUME NEW d \in Clients, NEW b \in queued'[d],
                        at'[d] # "each" \/ b \notin collected'[d]
                 PROVE  InCache(b) /\ owner[b] = d
      BY <1>1 DEF QueuedOwn, InCache
    <2> QED
      BY <1>2 DEF QueuedOwn
  <1>7. Phases'
    BY <1>1, <1>2 DEF Phases, Clients
  <1>8. Accounted'
    BY <1>1, AccountedStays
  <1>9. NoneForgotten => NoneForgotten'
    BY <1>1, <1>2 DEF NoneForgotten, InCache
  <1> QED
    BY <1>3, <1>4, <1>5, <1>6, <1>7, <1>8, <1>9

-----------------------------------------------------------------------------
LEMMA InitKeeps ==
  ASSUME Init
  PROVE  ClientsKept /\ NoneForgotten
  <1> USE ClientAssumption DEF Init, NewCache
  <1>1. TypeOK
    BY DEF TypeOK, CacheTypeOK
  <1>2. \A a \in Addresses : ~InCache(a)
    BY DEF InCache
  <1>3. CacheOnHeap /\ HeldExact /\ QueuedOwn /\ Phases /\ NoneForgotten
    BY <1>2 DEF CacheOnHeap, HeldExact, Held, QueuedOwn, Phases, NoneForgotten, Clients
  <1>4. Accounted
    <2>1. \A c \in Clients : OnHeap(c) = {} /\ made[c] - received[c] = 0
      BY DEF OnHeap
    <2> QED
      BY <2>1, FS_EmptySet DEF Accounted
  <1> QED
    BY <1>1, <1>3, <1>4 DEF ClientsKept

LEMMA NextKeeps ==
  ASSUME ClientsKept, [Next]_vars
  PROVE  ClientsKept' /\ (~QuickReuse /\ NoneForgotten => NoneForgotten')
  <1>1. ASSUME NEW e \in Evals, Eval(e) \/ EvalInAccept(e)
        PROVE  ClientsKept' /\ (~QuickReuse /\ NoneForgotten => NoneForgotten')
    <2>1. e \in Clients
      BY DEF Clients
    <2>2. PICK fresh \in SUBSET Addresses :
            /\ Submit(e, fresh)
            /\ at[e] = "each" /\ ~QuickReuse => fresh \cap collected[e] = {}
      BY <1>1 DEF Eval, EvalInAccept
    <2> QED
      BY <2>1, <2>2, SubmitKeeps
  <1>2. ASSUME NEW x \in Executors, Spawn(x)
        PROVE  ClientsKept' /\ (NoneForgotten => NoneForgotten')
    BY <1>2, SubmitKeeps DEF Spawn, Clients, ClientsKept, Phases
  <1>3. ASSUME UNCHANGED vars PROVE ClientsKept' /\ (NoneForgotten => NoneForgotten')
    BY <1>3 DEF vars, cache, clientVars, ClientsKept, TypeOK, CacheTypeOK, CacheOnHeap, InCache,
       HeldExact, Held, QueuedOwn, Phases, Accounted, OnHeap, NoneForgotten
  <1> QED
    BY <1>1, <1>2, <1>3, CacheKeeps, JoinKeeps, GatherKeeps, DeleteTaskKeeps, RecvWaitsKeeps,
       RecvLeftOverKeeps DEF Next, JoinStep, RecvStep

(* The inductive invariant of the clients: every task in the cache is on the heap, what a client
   waits for is its own and in the cache, and the tasks made and not yet received are exactly
   those on the heap. *)
THEOREM ClientsHold == Spec => []ClientsKept
  <1>1. Init => ClientsKept
    BY InitKeeps
  <1>2. ClientsKept /\ [Next]_vars => ClientsKept'
    BY NextKeeps
  <1> QED
    BY <1>1, <1>2, PTL DEF Spec

(* The clients' variables have their types, in every reachable state. *)
THEOREM ClientTypes == Spec => []TypeOK
  BY ClientsHold, PTL DEF ClientsKept

(* A task is deleted only after it has left the cache, and once: also when accept() gets the
   address of a deleted task back. *)
THEOREM NeverDangling == Spec => []NoDanglingTask
  <1>1. ClientsKept => NoDanglingTask
    BY DEF ClientsKept, CacheOnHeap, HeldExact, Held, NoDanglingTask
  <1> QED
    BY <1>1, ClientsHold, PTL

(* Every task of a PThreadEval is accepted once, every spawned point received once. *)
THEOREM ResultsCounted == Spec => []OneResultEach
  <1>1. ClientsKept => OneResultEach
    BY DEF ClientsKept, Accounted, OnHeap, OneResultEach
  <1> QED
    BY <1>1, ClientsHold, PTL

(* A client asks the cache for what the cache has for it, no more and no less, unless new
   returns in accept() an address that joinAll has still to subtract. *)
THEOREM NothingForgotten ==
  ASSUME ~QuickReuse
  PROVE  Spec => []QueuedExact
  <1>1. Init => ClientsKept /\ NoneForgotten
    BY InitKeeps
  <1>2. (ClientsKept /\ NoneForgotten) /\ [Next]_vars => (ClientsKept /\ NoneForgotten)'
    BY NextKeeps
  <1>3. ClientsKept /\ NoneForgotten => QueuedExact
    BY DEF ClientsKept, TypeOK, QueuedOwn, NoneForgotten, QueuedExact
  <1> QED
    BY <1>1, <1>2, <1>3, PTL DEF Spec

(* So joinAll joins all: without such a reuse of an address the run that breaks JoinsAll
   has no counterpart. *)
THEOREM JoinedMeansDone ==
  ASSUME ~QuickReuse
  PROVE  Spec => []JoinsAll
  <1>1. QueuedExact => JoinsAll
    BY DEF QueuedExact, JoinsAll, Clients
  <1> QED
    BY <1>1, NothingForgotten, PTL

=============================================================================
