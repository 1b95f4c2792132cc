--------------------------- MODULE RuntimeProofs ---------------------------
(***************************************************************************)
(* For any number of processes, workers and other threads: the reference   *)
(* count of a process is the number of references to it, nothing refers to *)
(* a process that is destroyed, and it is destroyed once.                  *)
(***************************************************************************)
EXTENDS Runtime, FiniteSetTheorems, TLAPS

Holders == Threads \cup Processes

Balance(p) == IsFiniteSet(Refs(p)) /\ count[p] = Cardinality(Refs(p))
Balanced   == \A p \in Processes : Balance(p)

-----------------------------------------------------------------------------
(* What one reference more or less does to the set of references.           *)
LEMMA KeepRefs ==
  ASSUME NEW p, Balance(p), count'[p] = count[p],
         \A k \in RefKinds, x \in Holders : Refers(k, x, p)' <=> Refers(k, x, p)
  PROVE  Balance(p)'
<1>1. Refs(p)' = Refs(p)
  BY DEF Refs, Holders
<1>2. QED
  BY <1>1 DEF Balance

(* One reference more, counted by ref().                                    *)
LEMMA AddRef ==
  ASSUME NEW p, Balance(p), count'[p] = count[p] + 1,
         NEW j \in RefKinds, NEW y \in Holders, ~Refers(j, y, p),
         \A k \in RefKinds, x \in Holders : Refers(k, x, p)' <=> Refers(k, x, p) \/ (k = j /\ x = y)
  PROVE  Balance(p)'
<1>1. Refs(p)' = Refs(p) \cup {<<j, y>>}
  BY DEF Refs, Holders
<1>2. <<j, y>> \notin Refs(p)
  BY DEF Refs
<1>3. QED
  BY <1>1, <1>2, FS_AddElement DEF Balance

(* One reference less, counted by unref().                                  *)
LEMMA RemoveRef ==
  ASSUME NEW p, Balance(p), count'[p] = count[p] - 1,
         NEW j \in RefKinds, NEW y \in Holders, Refers(j, y, p),
         \A k \in RefKinds, x \in Holders : Refers(k, x, p)' <=> Refers(k, x, p) /\ ~(k = j /\ x = y)
  PROVE  Balance(p)'
<1>1. Refs(p)' = Refs(p) \ {<<j, y>>}
  BY DEF Refs, Holders
<1>2. <<j, y>> \in Refs(p)
  BY DEF Refs, Holders
<1>3. QED
  BY <1>1, <1>2, FS_RemoveElement DEF Balance

(* The holder of one reference becomes another.                             *)
LEMMA MoveRef ==
  ASSUME NEW p, Balance(p), count'[p] = count[p],
         NEW j \in RefKinds, NEW y \in Holders, Refers(j, y, p),
         NEW i \in RefKinds, NEW z \in Holders, ~Refers(i, z, p),
         \A k \in RefKinds, x \in Holders :
           Refers(k, x, p)' <=> (Refers(k, x, p) /\ ~(k = j /\ x = y)) \/ (k = i /\ x = z)
  PROVE  Balance(p)'
<1>1. Refs(p)' = (Refs(p) \ {<<j, y>>}) \cup {<<i, z>>}
  BY DEF Refs, Holders
<1>2. <<j, y>> \in Refs(p) /\ <<i, z>> \notin Refs(p)
  BY DEF Refs, Holders
<1>3. IsFiniteSet(Refs(p) \ {<<j, y>>}) /\ Cardinality(Refs(p) \ {<<j, y>>}) = Cardinality(Refs(p)) - 1
  BY <1>2, FS_RemoveElement DEF Balance
<1>4. <<i, z>> \notin Refs(p) \ {<<j, y>>}
  BY <1>2
<1>5. /\ IsFiniteSet(Refs(p)')
      /\ Cardinality(Refs(p)') = Cardinality(Refs(p)) - 1 + 1
  BY <1>1, <1>3, <1>4, FS_AddElement
<1>6. Cardinality(Refs(p)) \in Nat
  BY FS_CardinalityType DEF Balance
<1>7. QED
  BY <1>5, <1>6 DEF Balance

(* Whoever refers to a process counts.                                      *)
LEMMA Counted ==
  ASSUME NEW p, Balance(p)
  PROVE  /\ count[p] \in Nat
         /\ \A k \in RefKinds, x \in Holders : Refers(k, x, p) => count[p] > 0
         /\ count[p] = 0 => Refs(p) = {}
<1>1. count[p] \in Nat /\ (count[p] = 0 => Refs(p) = {})
  BY FS_CardinalityType, FS_EmptySet DEF Balance
<1>2. ASSUME NEW k \in RefKinds, NEW x \in Holders, Refers(k, x, p)
      PROVE  count[p] > 0
  <2>1. <<k, x>> \in Refs(p)
    BY <1>2 DEF Refs, Holders
  <2>2. QED BY <1>1, <2>1
<1>3. QED
  BY <1>1, <1>2

-----------------------------------------------------------------------------
(* The rest of the inductive invariant.                                     *)
Threading == /\ \A t \in Threads : found[t] = None <=> want[t] = "none"
             /\ \A t \in Threads : cur[t] = None <=> pc[t] \in {"idle", "out"}

(* One worker at a time has a process that runs or goes down, and until     *)
(* retire() it is registered.                                               *)
Runs(w) == pc[w] \in {"run", "exit"}
Running == \A w \in Threads : Runs(w) =>
             /\ cur[w] \in reg
             /\ place[cur[w]] = IF pc[w] = "run" THEN "running" ELSE "none"
             /\ pc[w] = "exit" => status[cur[w]] = "down"
             /\ \A u \in Threads : Runs(u) /\ cur[u] = cur[w] => u = w

(* A process in spawn() is registered and not yet queued or run.            *)
Starting == \A t \in Threads : fresh[t] # None =>
              /\ fresh[t] \in reg
              /\ place[fresh[t]] = "none"
              /\ \A u \in Threads : fresh[u] = fresh[t] => u = t
              /\ \A u \in Threads : Runs(u) => cur[u] # fresh[t]

(* request() pushes while its coroutine waits for nothing else.             *)
Requesting == \A t \in Threads : want[t] = "request" =>
                pc[t] = "run" /\ cur[t] \in Processes /\ waits[cur[t]] = None

Registered == \A p \in Processes :
                /\ place[p] # "none" => p \in reg
                /\ status[p] = "up" => p \in reg
                /\ status[p] = "none" => \A k \in RefKinds, x \in Holders : ~Refers(k, x, p)

(* The destructor runs when no reference is left.                           *)
Dead == /\ \A p \in Processes : status[p] = "destroyed" => count[p] = 0
        /\ \A p \in Processes, t \in Threads : p \in dying[t] => count[p] = 0

Struct == Threading /\ Running /\ Starting /\ Requesting /\ Registered

IInv == TypeOK /\ Balanced /\ Struct /\ Dead /\ DestroyedOnce

-----------------------------------------------------------------------------
(* The last reference is dropped when the process is down: it is out of the *)
(* registry.                                                                *)
LEMMA LastRef ==
  ASSUME TypeOK, Registered, Dead, NEW p \in Processes, Balance(p), Balance(p)',
         NEW j \in RefKinds, NEW y \in Holders, Refers(j, y, p),
         count'[p] = count[p] - 1, UNCHANGED <<reg, status>>
  PROVE  /\ count[p] > 0
         /\ count[p] = 1 => status[p] = "down" /\ \A t \in Threads : p \notin dying[t]
<1>1. count[p] \in Nat /\ count[p] > 0
  BY Counted
<1>2. ASSUME count[p] = 1
      PROVE  status[p] = "down" /\ \A t \in Threads : p \notin dying[t]
  <2>1. count'[p] = 0
    BY <1>2
  <2>2. Refs(p)' = {}
    BY <2>1, FS_EmptySet DEF Balance
  <2>3. p \notin reg
    <3>1. p \in reg' => <<"registry", p>> \in Refs(p)'
      BY DEF Refs, Refers, RefKinds
    <3>2. QED BY <2>2, <3>1
  <2>4. status[p] # "up" /\ status[p] # "none" /\ status[p] # "destroyed"
    BY <1>2, <2>3 DEF Registered, Dead
  <2>5. QED BY <1>2, <2>4 DEF TypeOK, Dead
<1>3. QED
  BY <1>1, <1>2

(* The worker takes over the reference of the queue.                        *)
LEMMA PickIInv ==
  ASSUME IInv, NEW w \in Workers, NEW p \in Processes, Pick(w, p)
  PROVE  IInv'
<1>t. TypeOK /\ Balanced /\ Threading /\ Running /\ Starting /\ Requesting /\ Registered /\ Dead /\ DestroyedOnce
  BY DEF IInv, Struct
<1>1. TypeOK'
  BY <1>t, RuntimeAssumption DEF TypeOK, Kinds, Pick, Free, Threads, life, mail, calls, thread
<1>2. ASSUME NEW r \in Processes PROVE Balance(r)'
  <2>1. CASE r = p
    <3>1. /\ "queue" \in RefKinds /\ r \in Holders /\ Refers("queue", r, r)
          /\ "worker" \in RefKinds /\ w \in Holders /\ ~Refers("worker", w, r)
      BY <1>t, <2>1, RuntimeAssumption DEF Refers, Pick, Free, RefKinds, Holders, Threading, Running, Runs, Starting, Requesting, TypeOK, Threads, life, mail, calls, thread
    <3>2. \A k \in RefKinds, x \in Holders :
            Refers(k, x, r)' <=> (Refers(k, x, r) /\ ~(k = "queue" /\ x = r)) \/ (k = "worker" /\ x = w)
      BY <1>t, <2>1, RuntimeAssumption DEF TypeOK, Threading, Running, Runs, Starting, Requesting, Refers, RefKinds, Holders, Pick, Free, RefKinds, Holders, Threads, life, mail, calls, thread
    <3>3. count'[r] = count[r]
      BY <1>t, <2>1, RuntimeAssumption DEF TypeOK, Pick, Free, RefKinds, Holders, Running, Runs, life, mail, calls, thread
    <3>4. Balance(r)
      BY <1>t DEF Balanced
    <3>5. QED
      BY <3>1, <3>2, <3>3, <3>4, MoveRef
  <2>2. CASE r # p
    BY <1>t, <2>2, KeepRefs, RuntimeAssumption DEF TypeOK, Balanced, Threading, Running, Runs, Refers, RefKinds, Holders, Threads, Pick, Free, RefKinds, Holders, life, mail, calls, thread
  <2>3. QED BY <2>1, <2>2
<1>3. Threading'
  BY <1>t, RuntimeAssumption DEF TypeOK, Threading, Pick, Free, Threads, life, mail, calls, thread
<1>4. Running'
  BY <1>t, RuntimeAssumption DEF TypeOK, Threading, Running, Starting, Registered, Runs, Pick, Free, Threads, life, mail, calls, thread
<1>5. Starting'
  BY <1>t, RuntimeAssumption DEF TypeOK, Threading, Running, Starting, Registered, Runs, Pick, Free, Threads, life, mail, calls, thread
<1>6. Requesting'
  BY <1>t, RuntimeAssumption DEF TypeOK, Threading, Requesting, Running, Runs, Pick, Free, Threads, life, mail, calls, thread
<1>7. Registered'
  BY <1>t, RuntimeAssumption DEF TypeOK, Threading, Registered, Running, Starting, Runs, Refers, RefKinds, Holders, Pick, Free, Threads, life, mail, calls, thread
<1>8. Dead' /\ DestroyedOnce'
  BY <1>t, RuntimeAssumption DEF TypeOK, Dead, DestroyedOnce, Pick, Free, Threads, life, mail, calls, thread
<1>9. QED
  BY <1>1, <1>2, <1>3, <1>4, <1>5, <1>6, <1>7, <1>8 DEF IInv, Struct, Balanced

(* Parking moves no reference.                                              *)
LEMMA ParkIInv ==
  ASSUME IInv, NEW w \in Workers, Park(w)
  PROVE  IInv'
<1>t. TypeOK /\ Balanced /\ Threading /\ Running /\ Starting /\ Requesting /\ Registered /\ Dead /\ DestroyedOnce
  BY DEF IInv, Struct
<1>1. TypeOK'
  BY <1>t, RuntimeAssumption DEF TypeOK, Kinds, Park, Free, Threads, life, mail, calls, thread
<1>2. ASSUME NEW r \in Processes PROVE Balance(r)'
  BY <1>t, KeepRefs, RuntimeAssumption DEF TypeOK, Balanced, Threading, Running, Runs, Refers, RefKinds, Holders, Threads, Park, life, mail, calls, thread
<1>3. Threading'
  BY <1>t, RuntimeAssumption DEF TypeOK, Threading, Park, Free, Threads, life, mail, calls, thread
<1>4. Running'
  BY <1>t, RuntimeAssumption DEF TypeOK, Threading, Running, Starting, Registered, Runs, Park, Free, Threads, life, mail, calls, thread
<1>5. Starting'
  BY <1>t, RuntimeAssumption DEF TypeOK, Threading, Running, Starting, Registered, Runs, Park, Free, Threads, life, mail, calls, thread
<1>6. Requesting'
  BY <1>t, RuntimeAssumption DEF TypeOK, Threading, Requesting, Running, Runs, Park, Free, Threads, life, mail, calls, thread
<1>7. Registered'
  BY <1>t, RuntimeAssumption DEF TypeOK, Threading, Registered, Running, Starting, Runs, Refers, RefKinds, Holders, Park, Free, Threads, life, mail, calls, thread
<1>8. Dead' /\ DestroyedOnce'
  BY <1>t, RuntimeAssumption DEF TypeOK, Dead, DestroyedOnce, Park, Free, Threads, life, mail, calls, thread
<1>9. QED
  BY <1>1, <1>2, <1>3, <1>4, <1>5, <1>6, <1>7, <1>8 DEF IInv, Struct, Balanced

(* Going down moves no reference yet.                                       *)
LEMMA GoDownIInv ==
  ASSUME IInv, NEW w \in Workers, GoDown(w)
  PROVE  IInv'
<1>t. TypeOK /\ Balanced /\ Threading /\ Running /\ Starting /\ Requesting /\ Registered /\ Dead /\ DestroyedOnce
  BY DEF IInv, Struct
<1>1. TypeOK'
  BY <1>t, RuntimeAssumption DEF TypeOK, Kinds, GoDown, Free, Threads, life, mail, calls, thread
<1>2. ASSUME NEW r \in Processes PROVE Balance(r)'
  BY <1>t, KeepRefs, RuntimeAssumption DEF TypeOK, Balanced, Threading, Running, Runs, Refers, RefKinds, Holders, Threads, GoDown, life, mail, calls, thread
<1>3. Threading'
  BY <1>t, RuntimeAssumption DEF TypeOK, Threading, GoDown, Free, Threads, life, mail, calls, thread
<1>4. Running'
  BY <1>t, RuntimeAssumption DEF TypeOK, Threading, Running, Starting, Registered, Runs, GoDown, Free, Threads, life, mail, calls, thread
<1>5. Starting'
  BY <1>t, RuntimeAssumption DEF TypeOK, Threading, Running, Starting, Registered, Runs, GoDown, Free, Threads, life, mail, calls, thread
<1>6. Requesting'
  BY <1>t, RuntimeAssumption DEF TypeOK, Threading, Requesting, Running, Runs, GoDown, Free, Threads, life, mail, calls, thread
<1>7. Registered'
  BY <1>t, RuntimeAssumption DEF TypeOK, Threading, Registered, Running, Starting, Runs, Refers, RefKinds, Holders, GoDown, Free, Threads, life, mail, calls, thread
<1>8. Dead' /\ DestroyedOnce'
  BY <1>t, RuntimeAssumption DEF TypeOK, Dead, DestroyedOnce, GoDown, Free, Threads, life, mail, calls, thread
<1>9. QED
  BY <1>1, <1>2, <1>3, <1>4, <1>5, <1>6, <1>7, <1>8 DEF IInv, Struct, Balanced

(* The process is queued with a reference of its own.                       *)
LEMMA RequeueIInv ==
  ASSUME IInv, NEW w \in Workers, Requeue(w)
  PROVE  IInv'
<1>t. TypeOK /\ Balanced /\ Threading /\ Running /\ Starting /\ Requesting /\ Registered /\ Dead /\ DestroyedOnce
  BY DEF IInv, Struct
<1>f. count[cur[w]] > 0 /\ cur[w] \in Processes
  <2>1. cur[w] \in Processes /\ "worker" \in RefKinds /\ w \in Holders /\ Refers("worker", w, cur[w])
    BY <1>t, RuntimeAssumption DEF TypeOK, Threading, Running, Runs, Starting, Requesting, Refers, RefKinds, Holders, Threads, Requeue, Free, life, mail, calls, thread
  <2>2. QED BY <1>t, <2>1, Counted DEF Balanced
<1>1. TypeOK'
  BY <1>t, RuntimeAssumption, <1>f DEF TypeOK, Kinds, Requeue, Resume, Free, Threads, life, mail, calls, thread
<1>2. ASSUME NEW r \in Processes PROVE Balance(r)'
  <2>1. CASE r = cur[w]
    <3>1. "queue" \in RefKinds /\ r \in Holders /\ ~Refers("queue", r, r)
      BY <1>t, <2>1, RuntimeAssumption DEF Refers, Requeue, Resume, Free, RefKinds, Holders, Threading, Running, Runs, Starting, Requesting, TypeOK, Threads, life, mail, calls, thread
    <3>2. \A k \in RefKinds, x \in Holders : Refers(k, x, r)' <=> Refers(k, x, r) \/ (k = "queue" /\ x = r)
      BY <1>t, <2>1, RuntimeAssumption DEF TypeOK, Threading, Running, Runs, Starting, Requesting, Refers, RefKinds, Holders, Requeue, Resume, Free, RefKinds, Holders, Threads, life, mail, calls, thread
    <3>3. count'[r] = count[r] + 1
      BY <1>t, <2>1, RuntimeAssumption DEF TypeOK, Requeue, Resume, Free, RefKinds, Holders, Running, Runs, life, mail, calls, thread
    <3>4. Balance(r)
      BY <1>t DEF Balanced
    <3>5. QED
      BY <3>1, <3>2, <3>3, <3>4, AddRef
  <2>2. CASE r # cur[w]
    BY <1>t, <2>2, KeepRefs, RuntimeAssumption DEF TypeOK, Balanced, Threading, Running, Runs, Refers, RefKinds, Holders, Threads, Requeue, Resume, Free, RefKinds, Holders, life, mail, calls, thread
  <2>3. QED BY <2>1, <2>2
<1>3. Threading'
  BY <1>t, RuntimeAssumption, <1>f DEF TypeOK, Threading, Requeue, Resume, Free, Threads, life, mail, calls, thread
<1>4. Running'
  BY <1>t, RuntimeAssumption, <1>f DEF TypeOK, Threading, Running, Starting, Registered, Runs, Requeue, Resume, Free, Threads, life, mail, calls, thread
<1>5. Starting'
  BY <1>t, RuntimeAssumption, <1>f DEF TypeOK, Threading, Running, Starting, Registered, Runs, Requeue, Resume, Free, Threads, life, mail, calls, thread
<1>6. Requesting'
  BY <1>t, RuntimeAssumption, <1>f DEF TypeOK, Threading, Requesting, Running, Runs, Requeue, Resume, Free, Threads, life, mail, calls, thread
<1>7. Registered'
  BY <1>t, RuntimeAssumption, <1>f DEF TypeOK, Threading, Registered, Running, Starting, Runs, Refers, RefKinds, Holders, Requeue, Resume, Free, Threads, life, mail, calls, thread
<1>8. Dead' /\ DestroyedOnce'
  BY <1>t, RuntimeAssumption, <1>f DEF TypeOK, Dead, DestroyedOnce, Requeue, Resume, Free, Threads, life, mail, calls, thread
<1>9. QED
  BY <1>1, <1>2, <1>3, <1>4, <1>5, <1>6, <1>7, <1>8 DEF IInv, Struct, Balanced

(* spawn() queues the process with a reference of its own.                  *)
LEMMA StartIInv ==
  ASSUME IInv, NEW t \in Threads, Start(t)
  PROVE  IInv'
<1>t. TypeOK /\ Balanced /\ Threading /\ Running /\ Starting /\ Requesting /\ Registered /\ Dead /\ DestroyedOnce
  BY DEF IInv, Struct
<1>f. count[fresh[t]] > 0 /\ fresh[t] \in Processes
  <2>1. fresh[t] \in Processes /\ "registry" \in RefKinds /\ fresh[t] \in Holders /\ Refers("registry", fresh[t], fresh[t])
    BY <1>t, RuntimeAssumption DEF TypeOK, Threading, Running, Runs, Starting, Requesting, Refers, RefKinds, Holders, Threads, Start, life, mail, calls, thread
  <2>2. QED BY <1>t, <2>1, Counted DEF Balanced
<1>1. TypeOK'
  BY <1>t, RuntimeAssumption, <1>f DEF TypeOK, Kinds, Start, Resume, Threads, life, mail, calls, thread
<1>2. ASSUME NEW r \in Processes PROVE Balance(r)'
  <2>1. CASE r = fresh[t]
    <3>1. "queue" \in RefKinds /\ r \in Holders /\ ~Refers("queue", r, r)
      BY <1>t, <2>1, RuntimeAssumption DEF Refers, Start, Resume, RefKinds, Holders, Threading, Running, Runs, Starting, Requesting, TypeOK, Threads, life, mail, calls, thread
    <3>2. \A k \in RefKinds, x \in Holders : Refers(k, x, r)' <=> Refers(k, x, r) \/ (k = "queue" /\ x = r)
      BY <1>t, <2>1, RuntimeAssumption DEF TypeOK, Threading, Running, Runs, Starting, Requesting, Refers, RefKinds, Holders, Start, Resume, RefKinds, Holders, Threads, life, mail, calls, thread
    <3>3. count'[r] = count[r] + 1
      BY <1>t, <2>1, RuntimeAssumption DEF TypeOK, Start, Resume, RefKinds, Holders, Running, Runs, life, mail, calls, thread
    <3>4. Balance(r)
      BY <1>t DEF Balanced
    <3>5. QED
      BY <3>1, <3>2, <3>3, <3>4, AddRef
  <2>2. CASE r # fresh[t]
    BY <1>t, <2>2, KeepRefs, RuntimeAssumption DEF TypeOK, Balanced, Threading, Running, Runs, Refers, RefKinds, Holders, Threads, Start, Resume, RefKinds, Holders, life, mail, calls, thread
  <2>3. QED BY <2>1, <2>2
<1>3. Threading'
  BY <1>t, RuntimeAssumption, <1>f DEF TypeOK, Threading, Start, Resume, Threads, life, mail, calls, thread
<1>4. Running'
  BY <1>t, RuntimeAssumption, <1>f DEF TypeOK, Threading, Running, Starting, Registered, Runs, Start, Resume, Threads, life, mail, calls, thread
<1>5. Starting'
  BY <1>t, RuntimeAssumption, <1>f DEF TypeOK, Threading, Running, Starting, Registered, Runs, Start, Resume, Threads, life, mail, calls, thread
<1>6. Requesting'
  BY <1>t, RuntimeAssumption, <1>f DEF TypeOK, Threading, Requesting, Running, Runs, Start, Resume, Threads, life, mail, calls, thread
<1>7. Registered'
  BY <1>t, RuntimeAssumption, <1>f DEF TypeOK, Threading, Registered, Running, Starting, Runs, Refers, RefKinds, Holders, Start, Resume, Threads, life, mail, calls, thread
<1>8. Dead' /\ DestroyedOnce'
  BY <1>t, RuntimeAssumption, <1>f DEF TypeOK, Dead, DestroyedOnce, Start, Resume, Threads, life, mail, calls, thread
<1>9. QED
  BY <1>1, <1>2, <1>3, <1>4, <1>5, <1>6, <1>7, <1>8 DEF IInv, Struct, Balanced

(* find() references what it finds.                                         *)
LEMMA FindIInv ==
  ASSUME IInv, NEW t \in Threads, NEW p \in Processes, NEW why \in Kinds, Find(t, p, why)
  PROVE  IInv'
<1>t. TypeOK /\ Balanced /\ Threading /\ Running /\ Starting /\ Requesting /\ Registered /\ Dead /\ DestroyedOnce
  BY DEF IInv, Struct
<1>f. count[p] > 0 /\ p \in Processes
  <2>1. p \in Processes /\ "registry" \in RefKinds /\ p \in Holders /\ Refers("registry", p, p)
    BY <1>t, RuntimeAssumption DEF TypeOK, Threading, Running, Runs, Starting, Requesting, Refers, RefKinds, Holders, Threads, Find, Found, life, mail, calls, thread
  <2>2. QED BY <1>t, <2>1, Counted DEF Balanced
<1>1. TypeOK'
  BY <1>t, RuntimeAssumption, <1>f DEF TypeOK, Kinds, Find, Found, Free, Threads, life, mail, calls, thread
<1>2. ASSUME NEW r \in Processes PROVE Balance(r)'
  <2>1. CASE r = p
    <3>1. "found" \in RefKinds /\ t \in Holders /\ ~Refers("found", t, r)
      BY <1>t, <2>1, RuntimeAssumption DEF Refers, Find, Found, Free, Kinds, RefKinds, Holders, Threading, Running, Runs, Starting, Requesting, TypeOK, Threads, life, mail, calls, thread
    <3>2. \A k \in RefKinds, x \in Holders : Refers(k, x, r)' <=> Refers(k, x, r) \/ (k = "found" /\ x = t)
      BY <1>t, <2>1, RuntimeAssumption DEF TypeOK, Threading, Running, Runs, Starting, Requesting, Refers, RefKinds, Holders, Find, Found, Free, Kinds, RefKinds, Holders, Threads, life, mail, calls, thread
    <3>3. count'[r] = count[r] + 1
      BY <1>t, <2>1, RuntimeAssumption DEF TypeOK, Find, Found, Free, Kinds, RefKinds, Holders, Running, Runs, life, mail, calls, thread
    <3>4. Balance(r)
      BY <1>t DEF Balanced
    <3>5. QED
      BY <3>1, <3>2, <3>3, <3>4, AddRef
  <2>2. CASE r # p
    BY <1>t, <2>2, KeepRefs, RuntimeAssumption DEF TypeOK, Balanced, Threading, Running, Runs, Refers, RefKinds, Holders, Threads, Find, Found, Free, Kinds, RefKinds, Holders, life, mail, calls, thread
  <2>3. QED BY <2>1, <2>2
<1>3. Threading'
  BY <1>t, RuntimeAssumption, <1>f DEF TypeOK, Threading, Find, Found, Free, Threads, life, mail, calls, thread
<1>4. Running'
  BY <1>t, RuntimeAssumption, <1>f DEF TypeOK, Threading, Running, Starting, Registered, Runs, Find, Found, Free, Threads, life, mail, calls, thread
<1>5. Starting'
  BY <1>t, RuntimeAssumption, <1>f DEF TypeOK, Threading, Running, Starting, Registered, Runs, Find, Found, Free, Threads, life, mail, calls, thread
<1>6. Requesting'
  BY <1>t, RuntimeAssumption, <1>f DEF TypeOK, Threading, Requesting, Running, Runs, Find, Found, Free, Threads, life, mail, calls, thread
<1>7. Registered'
  BY <1>t, RuntimeAssumption, <1>f DEF TypeOK, Threading, Registered, Running, Starting, Runs, Refers, RefKinds, Holders, Find, Found, Free, Threads, life, mail, calls, thread
<1>8. Dead' /\ DestroyedOnce'
  BY <1>t, RuntimeAssumption, <1>f DEF TypeOK, Dead, DestroyedOnce, Find, Found, Free, Threads, life, mail, calls, thread
<1>9. QED
  BY <1>1, <1>2, <1>3, <1>4, <1>5, <1>6, <1>7, <1>8 DEF IInv, Struct, Balanced

(* retire() takes over the reference of the registry.                       *)
LEMMA UnregIInv ==
  ASSUME IInv, NEW w \in Workers, Unreg(w)
  PROVE  IInv'
<1>t. TypeOK /\ Balanced /\ Threading /\ Running /\ Starting /\ Requesting /\ Registered /\ Dead /\ DestroyedOnce
  BY DEF IInv, Struct
<1>1. TypeOK'
  BY <1>t, RuntimeAssumption DEF TypeOK, Kinds, Unreg, Free, Threads, life, mail, calls, thread
<1>2. ASSUME NEW r \in Processes PROVE Balance(r)'
  <2>1. CASE r = cur[w]
    <3>1. /\ "registry" \in RefKinds /\ r \in Holders /\ Refers("registry", r, r)
          /\ "retire" \in RefKinds /\ w \in Holders /\ ~Refers("retire", w, r)
      BY <1>t, <2>1, RuntimeAssumption DEF Refers, Unreg, Free, RefKinds, Holders, Threading, Running, Runs, Starting, Requesting, TypeOK, Threads, life, mail, calls, thread
    <3>2. \A k \in RefKinds, x \in Holders :
            Refers(k, x, r)' <=> (Refers(k, x, r) /\ ~(k = "registry" /\ x = r)) \/ (k = "retire" /\ x = w)
      BY <1>t, <2>1, RuntimeAssumption DEF TypeOK, Threading, Running, Runs, Starting, Requesting, Refers, RefKinds, Holders, Unreg, Free, RefKinds, Holders, Threads, life, mail, calls, thread
    <3>3. count'[r] = count[r]
      BY <1>t, <2>1, RuntimeAssumption DEF TypeOK, Unreg, Free, RefKinds, Holders, Running, Runs, life, mail, calls, thread
    <3>4. Balance(r)
      BY <1>t DEF Balanced
    <3>5. QED
      BY <3>1, <3>2, <3>3, <3>4, MoveRef
  <2>2. CASE r # cur[w]
    BY <1>t, <2>2, KeepRefs, RuntimeAssumption DEF TypeOK, Balanced, Threading, Running, Runs, Refers, RefKinds, Holders, Threads, Unreg, Free, RefKinds, Holders, life, mail, calls, thread
  <2>3. QED BY <2>1, <2>2
<1>3. Threading'
  BY <1>t, RuntimeAssumption DEF TypeOK, Threading, Unreg, Free, Threads, life, mail, calls, thread
<1>4. Running'
  BY <1>t, RuntimeAssumption DEF TypeOK, Threading, Running, Starting, Registered, Runs, Unreg, Free, Threads, life, mail, calls, thread
<1>5. Starting'
  BY <1>t, RuntimeAssumption DEF TypeOK, Threading, Running, Starting, Registered, Runs, Unreg, Free, Threads, life, mail, calls, thread
<1>6. Requesting'
  BY <1>t, RuntimeAssumption DEF TypeOK, Threading, Requesting, Running, Runs, Unreg, Free, Threads, life, mail, calls, thread
<1>7. Registered'
  BY <1>t, RuntimeAssumption DEF TypeOK, Threading, Registered, Running, Starting, Runs, Refers, RefKinds, Holders, Unreg, Free, Threads, life, mail, calls, thread
<1>8. Dead' /\ DestroyedOnce'
  BY <1>t, RuntimeAssumption DEF TypeOK, Dead, DestroyedOnce, Unreg, Free, Threads, life, mail, calls, thread
<1>9. QED
  BY <1>1, <1>2, <1>3, <1>4, <1>5, <1>6, <1>7, <1>8 DEF IInv, Struct, Balanced

(* The ProcessUniquePtr drops its reference.                                *)
LEMMA DropIInv ==
  ASSUME IInv, NEW t \in Threads, Drop(t)
  PROVE  IInv'
<1>t. TypeOK /\ Balanced /\ Threading /\ Running /\ Starting /\ Requesting /\ Registered /\ Dead /\ DestroyedOnce
  BY DEF IInv, Struct
<1>f. PICK z \in Processes : z = found[t]
  BY <1>t, RuntimeAssumption DEF TypeOK, Threading, Threads, Drop, Unref, Free
<1>g. /\ "found" \in RefKinds /\ t \in Holders /\ Refers("found", t, z)
      /\ count'[z] = count[z] - 1 /\ UNCHANGED <<reg, status>>
  BY <1>t, <1>f, RuntimeAssumption DEF TypeOK, Threading, Running, Runs, Refers, RefKinds, Holders, Threads, Drop, Unref, Free, life, mail, calls, thread
<1>h. count[z] \in Nat /\ count[z] > 0
  BY <1>t, <1>f, <1>g, Counted DEF Balanced
<1>1. TypeOK'
  BY <1>t, RuntimeAssumption, <1>f, <1>g, <1>h DEF TypeOK, Kinds, Drop, Unref, Free, Threads, life, mail, calls, thread
<1>2. ASSUME NEW r \in Processes PROVE Balance(r)'
  <2>1. CASE r = found[t]
    <3>1. "found" \in RefKinds /\ t \in Holders /\ Refers("found", t, r)
      BY <1>t, <2>1, RuntimeAssumption DEF Refers, Drop, Unref, Free, RefKinds, Holders, Threading, Running, Runs, Starting, Requesting, TypeOK, Threads, life, mail, calls, thread
    <3>2. \A k \in RefKinds, x \in Holders : Refers(k, x, r)' <=> Refers(k, x, r) /\ ~(k = "found" /\ x = t)
      BY <1>t, <2>1, RuntimeAssumption DEF TypeOK, Threading, Running, Runs, Starting, Requesting, Refers, RefKinds, Holders, Drop, Unref, Free, RefKinds, Holders, Threads, life, mail, calls, thread
    <3>3. count'[r] = count[r] - 1
      BY <1>t, <2>1, RuntimeAssumption DEF TypeOK, Drop, Unref, Free, RefKinds, Holders, Running, Runs, life, mail, calls, thread
    <3>4. Balance(r)
      BY <1>t DEF Balanced
    <3>5. QED
      BY <3>1, <3>2, <3>3, <3>4, RemoveRef
  <2>2. CASE r # found[t]
    BY <1>t, <2>2, KeepRefs, RuntimeAssumption DEF TypeOK, Balanced, Threading, Running, Runs, Refers, RefKinds, Holders, Threads, Drop, Unref, Free, RefKinds, Holders, life, mail, calls, thread
  <2>3. QED BY <2>1, <2>2
<1>3. Threading'
  BY <1>t, RuntimeAssumption, <1>f, <1>g, <1>h DEF TypeOK, Threading, Drop, Unref, Free, Threads, life, mail, calls, thread
<1>4. Running'
  BY <1>t, RuntimeAssumption, <1>f, <1>g, <1>h DEF TypeOK, Threading, Running, Starting, Registered, Runs, Drop, Unref, Free, Threads, life, mail, calls, thread
<1>5. Starting'
  BY <1>t, RuntimeAssumption, <1>f, <1>g, <1>h DEF TypeOK, Threading, Running, Starting, Registered, Runs, Drop, Unref, Free, Threads, life, mail, calls, thread
<1>6. Requesting'
  BY <1>t, RuntimeAssumption, <1>f, <1>g, <1>h DEF TypeOK, Threading, Requesting, Running, Runs, Drop, Unref, Free, Threads, life, mail, calls, thread
<1>7. Registered'
  BY <1>t, RuntimeAssumption, <1>f, <1>g, <1>h DEF TypeOK, Threading, Registered, Running, Starting, Runs, Refers, RefKinds, Holders, Drop, Unref, Free, Threads, life, mail, calls, thread
<1>8. Dead' /\ DestroyedOnce'
  <2>1. Balance(z) /\ Balance(z)'
    BY <1>t, <1>2 DEF Balanced
  <2>2. count[z] = 1 => status[z] = "down" /\ \A u \in Threads : z \notin dying[u]
    BY <1>t, <1>g, <2>1, LastRef
  <2>3. QED BY <1>t, <1>f, <1>h, <2>2, RuntimeAssumption DEF TypeOK, Dead, DestroyedOnce, Drop, Unref, Free, life, mail, calls, thread
<1>9. QED
  BY <1>1, <1>2, <1>3, <1>4, <1>5, <1>6, <1>7, <1>8 DEF IInv, Struct, Balanced

(* The end of request() drops its reference.                                *)
LEMMA AnswerIInv ==
  ASSUME IInv, NEW w \in Workers, Answer(w)
  PROVE  IInv'
<1>t. TypeOK /\ Balanced /\ Threading /\ Running /\ Starting /\ Requesting /\ Registered /\ Dead /\ DestroyedOnce
  BY DEF IInv, Struct
<1>c. cur[w] \in Processes /\ w \in Threads
  BY <1>t, RuntimeAssumption DEF TypeOK, Threading, Threads, Answer, Unref, Free
<1>f. PICK z \in Processes : z = waits[cur[w]]
  BY <1>t, RuntimeAssumption DEF TypeOK, Threading, Threads, Answer, Unref, Free
<1>g. /\ "waits" \in RefKinds /\ cur[w] \in Holders /\ Refers("waits", cur[w], z)
      /\ count'[z] = count[z] - 1 /\ UNCHANGED <<reg, status>>
  BY <1>t, <1>f, RuntimeAssumption DEF TypeOK, Threading, Running, Runs, Refers, RefKinds, Holders, Threads, Answer, Unref, Free, life, mail, calls, thread
<1>h. count[z] \in Nat /\ count[z] > 0
  BY <1>t, <1>f, <1>g, Counted DEF Balanced
<1>1. TypeOK'
  BY <1>t, RuntimeAssumption, <1>f, <1>g, <1>h, <1>c DEF TypeOK, Kinds, Answer, Unref, Free, Threads, life, mail, calls, thread
<1>2. ASSUME NEW r \in Processes PROVE Balance(r)'
  <2>1. CASE r = waits[cur[w]]
    <3>1. "waits" \in RefKinds /\ cur[w] \in Holders /\ Refers("waits", cur[w], r)
      BY <1>t, <2>1, RuntimeAssumption DEF Refers, Answer, Unref, Free, RefKinds, Holders, Threading, Running, Runs, Starting, Requesting, TypeOK, Threads, life, mail, calls, thread
    <3>2. \A k \in RefKinds, x \in Holders : Refers(k, x, r)' <=> Refers(k, x, r) /\ ~(k = "waits" /\ x = cur[w])
      BY <1>t, <2>1, RuntimeAssumption DEF TypeOK, Threading, Running, Runs, Starting, Requesting, Refers, RefKinds, Holders, Answer, Unref, Free, RefKinds, Holders, Threads, life, mail, calls, thread
    <3>3. count'[r] = count[r] - 1
      BY <1>t, <2>1, RuntimeAssumption DEF TypeOK, Answer, Unref, Free, RefKinds, Holders, Running, Runs, life, mail, calls, thread
    <3>4. Balance(r)
      BY <1>t DEF Balanced
    <3>5. QED
      BY <3>1, <3>2, <3>3, <3>4, RemoveRef
  <2>2. CASE r # waits[cur[w]]
    BY <1>t, <2>2, KeepRefs, RuntimeAssumption DEF TypeOK, Balanced, Threading, Running, Runs, Refers, RefKinds, Holders, Threads, Answer, Unref, Free, RefKinds, Holders, life, mail, calls, thread
  <2>3. QED BY <2>1, <2>2
<1>3. Threading'
  BY <1>t, RuntimeAssumption, <1>f, <1>g, <1>h, <1>c DEF TypeOK, Threading, Answer, Unref, Free, Threads, life, mail, calls, thread
<1>4. Running'
  BY <1>t, RuntimeAssumption, <1>f, <1>g, <1>h, <1>c DEF TypeOK, Threading, Running, Starting, Registered, Runs, Answer, Unref, Free, Threads, life, mail, calls, thread
<1>5. Starting'
  BY <1>t, RuntimeAssumption, <1>f, <1>g, <1>h, <1>c DEF TypeOK, Threading, Running, Starting, Registered, Runs, Answer, Unref, Free, Threads, life, mail, calls, thread
<1>6. Requesting'
  BY <1>t, RuntimeAssumption, <1>f, <1>g, <1>h, <1>c DEF TypeOK, Threading, Requesting, Running, Runs, Answer, Unref, Free, Threads, life, mail, calls, thread
<1>7. Registered'
  BY <1>t, RuntimeAssumption, <1>f, <1>g, <1>h, <1>c DEF TypeOK, Threading, Registered, Running, Starting, Runs, Refers, RefKinds, Holders, Answer, Unref, Free, Threads, life, mail, calls, thread
<1>8. Dead' /\ DestroyedOnce'
  <2>1. Balance(z) /\ Balance(z)'
    BY <1>t, <1>2 DEF Balanced
  <2>2. count[z] = 1 => status[z] = "down" /\ \A u \in Threads : z \notin dying[u]
    BY <1>t, <1>g, <2>1, LastRef
  <2>3. QED BY <1>t, <1>f, <1>h, <2>2, RuntimeAssumption DEF TypeOK, Dead, DestroyedOnce, Answer, Unref, Free, life, mail, calls, thread
<1>9. QED
  BY <1>1, <1>2, <1>3, <1>4, <1>5, <1>6, <1>7, <1>8 DEF IInv, Struct, Balanced

(* An interrupted request() drops its reference.                            *)
LEMMA InterruptedIInv ==
  ASSUME IInv, NEW w \in Workers, Interrupted(w)
  PROVE  IInv'
<1>t. TypeOK /\ Balanced /\ Threading /\ Running /\ Starting /\ Requesting /\ Registered /\ Dead /\ DestroyedOnce
  BY DEF IInv, Struct
<1>c. cur[w] \in Processes /\ w \in Threads
  BY <1>t, RuntimeAssumption DEF TypeOK, Threading, Threads, Interrupted, Unref, Free
<1>f. PICK z \in Processes : z = waits[cur[w]]
  BY <1>t, RuntimeAssumption DEF TypeOK, Threading, Threads, Interrupted, Unref, Free
<1>g. /\ "waits" \in RefKinds /\ cur[w] \in Holders /\ Refers("waits", cur[w], z)
      /\ count'[z] = count[z] - 1 /\ UNCHANGED <<reg, status>>
  BY <1>t, <1>f, RuntimeAssumption DEF TypeOK, Threading, Running, Runs, Refers, RefKinds, Holders, Threads, Interrupted, Unref, Free, life, mail, calls, thread
<1>h. count[z] \in Nat /\ count[z] > 0
  BY <1>t, <1>f, <1>g, Counted DEF Balanced
<1>1. TypeOK'
  BY <1>t, RuntimeAssumption, <1>f, <1>g, <1>h, <1>c DEF TypeOK, Kinds, Interrupted, Unref, Free, Threads, life, mail, calls, thread
<1>2. ASSUME NEW r \in Processes PROVE Balance(r)'
  <2>1. CASE r = waits[cur[w]]
    <3>1. "waits" \in RefKinds /\ cur[w] \in Holders /\ Refers("waits", cur[w], r)
      BY <1>t, <2>1, RuntimeAssumption DEF Refers, Interrupted, Unref, Free, RefKinds, Holders, Threading, Running, Runs, Starting, Requesting, TypeOK, Threads, life, mail, calls, thread
    <3>2. \A k \in RefKinds, x \in Holders : Refers(k, x, r)' <=> Refers(k, x, r) /\ ~(k = "waits" /\ x = cur[w])
      BY <1>t, <2>1, RuntimeAssumption DEF TypeOK, Threading, Running, Runs, Starting, Requesting, Refers, RefKinds, Holders, Interrupted, Unref, Free, RefKinds, Holders, Threads, life, mail, calls, thread
    <3>3. count'[r] = count[r] - 1
      BY <1>t, <2>1, RuntimeAssumption DEF TypeOK, Interrupted, Unref, Free, RefKinds, Holders, Running, Runs, life, mail, calls, thread
    <3>4. Balance(r)
      BY <1>t DEF Balanced
    <3>5. QED
      BY <3>1, <3>2, <3>3, <3>4, RemoveRef
  <2>2. CASE r # waits[cur[w]]
    BY <1>t, <2>2, KeepRefs, RuntimeAssumption DEF TypeOK, Balanced, Threading, Running, Runs, Refers, RefKinds, Holders, Threads, Interrupted, Unref, Free, RefKinds, Holders, life, mail, calls, thread
  <2>3. QED BY <2>1, <2>2
<1>3. Threading'
  BY <1>t, RuntimeAssumption, <1>f, <1>g, <1>h, <1>c DEF TypeOK, Threading, Interrupted, Unref, Free, Threads, life, mail, calls, thread
<1>4. Running'
  BY <1>t, RuntimeAssumption, <1>f, <1>g, <1>h, <1>c DEF TypeOK, Threading, Running, Starting, Registered, Runs, Interrupted, Unref, Free, Threads, life, mail, calls, thread
<1>5. Starting'
  BY <1>t, RuntimeAssumption, <1>f, <1>g, <1>h, <1>c DEF TypeOK, Threading, Running, Starting, Registered, Runs, Interrupted, Unref, Free, Threads, life, mail, calls, thread
<1>6. Requesting'
  BY <1>t, RuntimeAssumption, <1>f, <1>g, <1>h, <1>c DEF TypeOK, Threading, Requesting, Running, Runs, Interrupted, Unref, Free, Threads, life, mail, calls, thread
<1>7. Registered'
  BY <1>t, RuntimeAssumption, <1>f, <1>g, <1>h, <1>c DEF TypeOK, Threading, Registered, Running, Starting, Runs, Refers, RefKinds, Holders, Interrupted, Unref, Free, Threads, life, mail, calls, thread
<1>8. Dead' /\ DestroyedOnce'
  <2>1. Balance(z) /\ Balance(z)'
    BY <1>t, <1>2 DEF Balanced
  <2>2. count[z] = 1 => status[z] = "down" /\ \A u \in Threads : z \notin dying[u]
    BY <1>t, <1>g, <2>1, LastRef
  <2>3. QED BY <1>t, <1>f, <1>h, <2>2, RuntimeAssumption DEF TypeOK, Dead, DestroyedOnce, Interrupted, Unref, Free, life, mail, calls, thread
<1>9. QED
  BY <1>1, <1>2, <1>3, <1>4, <1>5, <1>6, <1>7, <1>8 DEF IInv, Struct, Balanced

(* retire() drops the reference of the registry.                            *)
LEMMA RetireIInv ==
  ASSUME IInv, NEW w \in Workers, Retire(w)
  PROVE  IInv'
<1>t. TypeOK /\ Balanced /\ Threading /\ Running /\ Starting /\ Requesting /\ Registered /\ Dead /\ DestroyedOnce
  BY DEF IInv, Struct
<1>c. cur[w] \in Processes /\ w \in Threads
  BY <1>t, RuntimeAssumption DEF TypeOK, Threading, Threads, Retire, Unref, Free
<1>f. PICK z \in Processes : z = cur[w]
  BY <1>t, RuntimeAssumption DEF TypeOK, Threading, Threads, Retire, Unref, Free
<1>g. /\ "retire" \in RefKinds /\ w \in Holders /\ Refers("retire", w, z)
      /\ count'[z] = count[z] - 1 /\ UNCHANGED <<reg, status>>
  BY <1>t, <1>f, RuntimeAssumption DEF TypeOK, Threading, Running, Runs, Refers, RefKinds, Holders, Threads, Retire, Unref, Free, life, mail, calls, thread
<1>h. count[z] \in Nat /\ count[z] > 0
  BY <1>t, <1>f, <1>g, Counted DEF Balanced
<1>1. TypeOK'
  BY <1>t, RuntimeAssumption, <1>f, <1>g, <1>h, <1>c DEF TypeOK, Kinds, Retire, Unref, Free, Threads, life, mail, calls, thread
<1>2. ASSUME NEW r \in Processes PROVE Balance(r)'
  <2>1. CASE r = cur[w]
    <3>1. "retire" \in RefKinds /\ w \in Holders /\ Refers("retire", w, r)
      BY <1>t, <2>1, RuntimeAssumption DEF Refers, Retire, Unref, Free, RefKinds, Holders, Threading, Running, Runs, Starting, Requesting, TypeOK, Threads, life, mail, calls, thread
    <3>2. \A k \in RefKinds, x \in Holders : Refers(k, x, r)' <=> Refers(k, x, r) /\ ~(k = "retire" /\ x = w)
      BY <1>t, <2>1, RuntimeAssumption DEF TypeOK, Threading, Running, Runs, Starting, Requesting, Refers, RefKinds, Holders, Retire, Unref, Free, RefKinds, Holders, Threads, life, mail, calls, thread
    <3>3. count'[r] = count[r] - 1
      BY <1>t, <2>1, RuntimeAssumption DEF TypeOK, Retire, Unref, Free, RefKinds, Holders, Running, Runs, life, mail, calls, thread
    <3>4. Balance(r)
      BY <1>t DEF Balanced
    <3>5. QED
      BY <3>1, <3>2, <3>3, <3>4, RemoveRef
  <2>2. CASE r # cur[w]
    BY <1>t, <2>2, KeepRefs, RuntimeAssumption DEF TypeOK, Balanced, Threading, Running, Runs, Refers, RefKinds, Holders, Threads, Retire, Unref, Free, RefKinds, Holders, life, mail, calls, thread
  <2>3. QED BY <2>1, <2>2
<1>3. Threading'
  BY <1>t, RuntimeAssumption, <1>f, <1>g, <1>h, <1>c DEF TypeOK, Threading, Retire, Unref, Free, Threads, life, mail, calls, thread
<1>4. Running'
  BY <1>t, RuntimeAssumption, <1>f, <1>g, <1>h, <1>c DEF TypeOK, Threading, Running, Starting, Registered, Runs, Retire, Unref, Free, Threads, life, mail, calls, thread
<1>5. Starting'
  BY <1>t, RuntimeAssumption, <1>f, <1>g, <1>h, <1>c DEF TypeOK, Threading, Running, Starting, Registered, Runs, Retire, Unref, Free, Threads, life, mail, calls, thread
<1>6. Requesting'
  BY <1>t, RuntimeAssumption, <1>f, <1>g, <1>h, <1>c DEF TypeOK, Threading, Requesting, Running, Runs, Retire, Unref, Free, Threads, life, mail, calls, thread
<1>7. Registered'
  BY <1>t, RuntimeAssumption, <1>f, <1>g, <1>h, <1>c DEF TypeOK, Threading, Registered, Running, Starting, Runs, Refers, RefKinds, Holders, Retire, Unref, Free, Threads, life, mail, calls, thread
<1>8. Dead' /\ DestroyedOnce'
  <2>1. Balance(z) /\ Balance(z)'
    BY <1>t, <1>2 DEF Balanced
  <2>2. count[z] = 1 => status[z] = "down" /\ \A u \in Threads : z \notin dying[u]
    BY <1>t, <1>g, <2>1, LastRef
  <2>3. QED BY <1>t, <1>f, <1>h, <2>2, RuntimeAssumption DEF TypeOK, Dead, DestroyedOnce, Retire, Unref, Free, life, mail, calls, thread
<1>9. QED
  BY <1>1, <1>2, <1>3, <1>4, <1>5, <1>6, <1>7, <1>8 DEF IInv, Struct, Balanced

(* process::resume() drops the reference of the queue.                      *)
LEMMA ReleaseIInv ==
  ASSUME IInv, NEW w \in Workers, Release(w)
  PROVE  IInv'
<1>t. TypeOK /\ Balanced /\ Threading /\ Running /\ Starting /\ Requesting /\ Registered /\ Dead /\ DestroyedOnce
  BY DEF IInv, Struct
<1>c. cur[w] \in Processes /\ w \in Threads
  BY <1>t, RuntimeAssumption DEF TypeOK, Threading, Threads, Release, Unref, Free
<1>f. PICK z \in Processes : z = cur[w]
  BY <1>t, RuntimeAssumption DEF TypeOK, Threading, Threads, Release, Unref, Free
<1>g. /\ "worker" \in RefKinds /\ w \in Holders /\ Refers("worker", w, z)
      /\ count'[z] = count[z] - 1 /\ UNCHANGED <<reg, status>>
  BY <1>t, <1>f, RuntimeAssumption DEF TypeOK, Threading, Running, Runs, Refers, RefKinds, Holders, Threads, Release, Unref, Free, life, mail, calls, thread
<1>h. count[z] \in Nat /\ count[z] > 0
  BY <1>t, <1>f, <1>g, Counted DEF Balanced
<1>1. TypeOK'
  BY <1>t, RuntimeAssumption, <1>f, <1>g, <1>h, <1>c DEF TypeOK, Kinds, Release, Unref, Free, Threads, life, mail, calls, thread
<1>2. ASSUME NEW r \in Processes PROVE Balance(r)'
  <2>1. CASE r = cur[w]
    <3>1. "worker" \in RefKinds /\ w \in Holders /\ Refers("worker", w, r)
      BY <1>t, <2>1, RuntimeAssumption DEF Refers, Release, Unref, Free, RefKinds, Holders, Threading, Running, Runs, Starting, Requesting, TypeOK, Threads, life, mail, calls, thread
    <3>2. \A k \in RefKinds, x \in Holders : Refers(k, x, r)' <=> Refers(k, x, r) /\ ~(k = "worker" /\ x = w)
      BY <1>t, <2>1, RuntimeAssumption DEF TypeOK, Threading, Running, Runs, Starting, Requesting, Refers, RefKinds, Holders, Release, Unref, Free, RefKinds, Holders, Threads, life, mail, calls, thread
    <3>3. count'[r] = count[r] - 1
      BY <1>t, <2>1, RuntimeAssumption DEF TypeOK, Release, Unref, Free, RefKinds, Holders, Running, Runs, life, mail, calls, thread
    <3>4. Balance(r)
      BY <1>t DEF Balanced
    <3>5. QED
      BY <3>1, <3>2, <3>3, <3>4, RemoveRef
  <2>2. CASE r # cur[w]
    BY <1>t, <2>2, KeepRefs, RuntimeAssumption DEF TypeOK, Balanced, Threading, Running, Runs, Refers, RefKinds, Holders, Threads, Release, Unref, Free, RefKinds, Holders, life, mail, calls, thread
  <2>3. QED BY <2>1, <2>2
<1>3. Threading'
  BY <1>t, RuntimeAssumption, <1>f, <1>g, <1>h, <1>c DEF TypeOK, Threading, Release, Unref, Free, Threads, life, mail, calls, thread
<1>4. Running'
  BY <1>t, RuntimeAssumption, <1>f, <1>g, <1>h, <1>c DEF TypeOK, Threading, Running, Starting, Registered, Runs, Release, Unref, Free, Threads, life, mail, calls, thread
<1>5. Starting'
  BY <1>t, RuntimeAssumption, <1>f, <1>g, <1>h, <1>c DEF TypeOK, Threading, Running, Starting, Registered, Runs, Release, Unref, Free, Threads, life, mail, calls, thread
<1>6. Requesting'
  BY <1>t, RuntimeAssumption, <1>f, <1>g, <1>h, <1>c DEF TypeOK, Threading, Requesting, Running, Runs, Release, Unref, Free, Threads, life, mail, calls, thread
<1>7. Registered'
  BY <1>t, RuntimeAssumption, <1>f, <1>g, <1>h, <1>c DEF TypeOK, Threading, Registered, Running, Starting, Runs, Refers, RefKinds, Holders, Release, Unref, Free, Threads, life, mail, calls, thread
<1>8. Dead' /\ DestroyedOnce'
  <2>1. Balance(z) /\ Balance(z)'
    BY <1>t, <1>2 DEF Balanced
  <2>2. count[z] = 1 => status[z] = "down" /\ \A u \in Threads : z \notin dying[u]
    BY <1>t, <1>g, <2>1, LastRef
  <2>3. QED BY <1>t, <1>f, <1>h, <2>2, RuntimeAssumption DEF TypeOK, Dead, DestroyedOnce, Release, Unref, Free, life, mail, calls, thread
<1>9. QED
  BY <1>1, <1>2, <1>3, <1>4, <1>5, <1>6, <1>7, <1>8 DEF IInv, Struct, Balanced

(* Closing a request moves no reference.                                    *)
LEMMA ResponseLostIInv ==
  ASSUME IInv, NEW w \in Workers, NEW p \in Processes, ResponseLost(w, p)
  PROVE  IInv'
<1>t. TypeOK /\ Balanced /\ Threading /\ Running /\ Starting /\ Requesting /\ Registered /\ Dead /\ DestroyedOnce
  BY DEF IInv, Struct
<1>1. TypeOK'
  BY <1>t, RuntimeAssumption DEF TypeOK, Kinds, ResponseLost, Free, Threads, life, mail, calls, thread
<1>2. ASSUME NEW r \in Processes PROVE Balance(r)'
  BY <1>t, KeepRefs, RuntimeAssumption DEF TypeOK, Balanced, Threading, Running, Runs, Refers, RefKinds, Holders, Threads, ResponseLost, Free, life, mail, calls, thread
<1>3. Threading'
  BY <1>t, RuntimeAssumption DEF TypeOK, Threading, ResponseLost, Free, Threads, life, mail, calls, thread
<1>4. Running'
  BY <1>t, RuntimeAssumption DEF TypeOK, Threading, Running, Starting, Registered, Runs, ResponseLost, Free, Threads, life, mail, calls, thread
<1>5. Starting'
  BY <1>t, RuntimeAssumption DEF TypeOK, Threading, Running, Starting, Registered, Runs, ResponseLost, Free, Threads, life, mail, calls, thread
<1>6. Requesting'
  BY <1>t, RuntimeAssumption DEF TypeOK, Threading, Requesting, Running, Runs, ResponseLost, Free, Threads, life, mail, calls, thread
<1>7. Registered'
  BY <1>t, RuntimeAssumption DEF TypeOK, Threading, Registered, Running, Starting, Runs, Refers, RefKinds, Holders, ResponseLost, Free, Threads, life, mail, calls, thread
<1>8. Dead' /\ DestroyedOnce'
  BY <1>t, RuntimeAssumption DEF TypeOK, Dead, DestroyedOnce, ResponseLost, Free, Threads, life, mail, calls, thread
<1>9. QED
  BY <1>1, <1>2, <1>3, <1>4, <1>5, <1>6, <1>7, <1>8 DEF IInv, Struct, Balanced

(* An abort references the requester it finds.                              *)
LEMMA AbortFoundIInv ==
  ASSUME IInv, NEW t \in Threads, NEW q \in Processes, NEW p \in Processes, Abort(t, q, p), p \in reg
  PROVE  IInv'
<1>t. TypeOK /\ Balanced /\ Threading /\ Running /\ Starting /\ Requesting /\ Registered /\ Dead /\ DestroyedOnce
  BY DEF IInv, Struct
<1>f. count[p] > 0 /\ p \in Processes
  <2>1. p \in Processes /\ "registry" \in RefKinds /\ p \in Holders /\ Refers("registry", p, p)
    BY <1>t, RuntimeAssumption DEF TypeOK, Threading, Running, Runs, Starting, Requesting, Refers, RefKinds, Holders, Threads, Abort, Found, life, mail, calls, thread
  <2>2. QED BY <1>t, <2>1, Counted DEF Balanced
<1>1. TypeOK'
  BY <1>t, RuntimeAssumption, <1>f DEF TypeOK, Kinds, Abort, Found, Free, Threads, life, mail, calls, thread
<1>2. ASSUME NEW r \in Processes PROVE Balance(r)'
  <2>1. CASE r = p
    <3>1. "found" \in RefKinds /\ t \in Holders /\ ~Refers("found", t, r)
      BY <1>t, <2>1, RuntimeAssumption DEF Refers, Abort, Found, Kinds, RefKinds, Holders, Threading, Running, Runs, Starting, Requesting, TypeOK, Threads, life, mail, calls, thread
    <3>2. \A k \in RefKinds, x \in Holders : Refers(k, x, r)' <=> Refers(k, x, r) \/ (k = "found" /\ x = t)
      BY <1>t, <2>1, RuntimeAssumption DEF TypeOK, Threading, Running, Runs, Starting, Requesting, Refers, RefKinds, Holders, Abort, Found, Kinds, RefKinds, Holders, Threads, life, mail, calls, thread
    <3>3. count'[r] = count[r] + 1
      BY <1>t, <2>1, RuntimeAssumption DEF TypeOK, Abort, Found, Kinds, RefKinds, Holders, Running, Runs, life, mail, calls, thread
    <3>4. Balance(r)
      BY <1>t DEF Balanced
    <3>5. QED
      BY <3>1, <3>2, <3>3, <3>4, AddRef
  <2>2. CASE r # p
    BY <1>t, <2>2, KeepRefs, RuntimeAssumption DEF TypeOK, Balanced, Threading, Running, Runs, Refers, RefKinds, Holders, Threads, Abort, Found, Kinds, RefKinds, Holders, life, mail, calls, thread
  <2>3. QED BY <2>1, <2>2
<1>3. Threading'
  BY <1>t, RuntimeAssumption, <1>f DEF TypeOK, Threading, Abort, Found, Free, Threads, life, mail, calls, thread
<1>4. Running'
  BY <1>t, RuntimeAssumption, <1>f DEF TypeOK, Threading, Running, Starting, Registered, Runs, Abort, Found, Free, Threads, life, mail, calls, thread
<1>5. Starting'
  BY <1>t, RuntimeAssumption, <1>f DEF TypeOK, Threading, Running, Starting, Registered, Runs, Abort, Found, Free, Threads, life, mail, calls, thread
<1>6. Requesting'
  BY <1>t, RuntimeAssumption, <1>f DEF TypeOK, Threading, Requesting, Running, Runs, Abort, Found, Free, Threads, life, mail, calls, thread
<1>7. Registered'
  BY <1>t, RuntimeAssumption, <1>f DEF TypeOK, Threading, Registered, Running, Starting, Runs, Refers, RefKinds, Holders, Abort, Found, Free, Threads, life, mail, calls, thread
<1>8. Dead' /\ DestroyedOnce'
  BY <1>t, RuntimeAssumption, <1>f DEF TypeOK, Dead, DestroyedOnce, Abort, Found, Free, Threads, life, mail, calls, thread
<1>9. QED
  BY <1>1, <1>2, <1>3, <1>4, <1>5, <1>6, <1>7, <1>8 DEF IInv, Struct, Balanced

(* The abort of a request whose requester is gone moves no reference.       *)
LEMMA AbortLostIInv ==
  ASSUME IInv, NEW t \in Threads, NEW q \in Processes, NEW p \in Processes, Abort(t, q, p), p \notin reg
  PROVE  IInv'
<1>t. TypeOK /\ Balanced /\ Threading /\ Running /\ Starting /\ Requesting /\ Registered /\ Dead /\ DestroyedOnce
  BY DEF IInv, Struct
<1>1. TypeOK'
  BY <1>t, RuntimeAssumption DEF TypeOK, Kinds, Abort, Found, Free, Threads, life, mail, calls, thread
<1>2. ASSUME NEW r \in Processes PROVE Balance(r)'
  BY <1>t, KeepRefs, RuntimeAssumption DEF TypeOK, Balanced, Threading, Running, Runs, Refers, RefKinds, Holders, Threads, Abort, life, mail, calls, thread
<1>3. Threading'
  BY <1>t, RuntimeAssumption DEF TypeOK, Threading, Abort, Found, Free, Threads, life, mail, calls, thread
<1>4. Running'
  BY <1>t, RuntimeAssumption DEF TypeOK, Threading, Running, Starting, Registered, Runs, Abort, Found, Free, Threads, life, mail, calls, thread
<1>5. Starting'
  BY <1>t, RuntimeAssumption DEF TypeOK, Threading, Running, Starting, Registered, Runs, Abort, Found, Free, Threads, life, mail, calls, thread
<1>6. Requesting'
  BY <1>t, RuntimeAssumption DEF TypeOK, Threading, Requesting, Running, Runs, Abort, Found, Free, Threads, life, mail, calls, thread
<1>7. Registered'
  BY <1>t, RuntimeAssumption DEF TypeOK, Threading, Registered, Running, Starting, Runs, Refers, RefKinds, Holders, Abort, Found, Free, Threads, life, mail, calls, thread
<1>8. Dead' /\ DestroyedOnce'
  BY <1>t, RuntimeAssumption DEF TypeOK, Dead, DestroyedOnce, Abort, Found, Free, Threads, life, mail, calls, thread
<1>9. QED
  BY <1>1, <1>2, <1>3, <1>4, <1>5, <1>6, <1>7, <1>8 DEF IInv, Struct, Balanced

(* The end of the destructor moves no reference.                            *)
LEMMA DestroyedIInv ==
  ASSUME IInv, NEW t \in Threads, NEW q \in Processes, Destroyed(t, q)
  PROVE  IInv'
<1>t. TypeOK /\ Balanced /\ Threading /\ Running /\ Starting /\ Requesting /\ Registered /\ Dead /\ DestroyedOnce
  BY DEF IInv, Struct
<1>f. status[q] = "down" /\ count[q] = 0
  BY <1>t DEF Dead, DestroyedOnce, Destroyed
<1>g. \A k \in RefKinds, x \in Holders : ~Refers(k, x, q)
  BY <1>t, <1>f, Counted DEF Balanced
<1>h. q \notin reg /\ \A w \in Threads : cur[w] # q
  BY <1>g DEF Refers, RefKinds, Holders
<1>1. TypeOK'
  BY <1>t, RuntimeAssumption, <1>f, <1>g, <1>h DEF TypeOK, Kinds, Destroyed, Free, Threads, life, mail, calls, thread
<1>2. ASSUME NEW r \in Processes PROVE Balance(r)'
  BY <1>t, KeepRefs, RuntimeAssumption DEF TypeOK, Balanced, Threading, Running, Runs, Refers, RefKinds, Holders, Threads, Destroyed, life, mail, calls, thread
<1>3. Threading'
  BY <1>t, RuntimeAssumption, <1>f, <1>g, <1>h DEF TypeOK, Threading, Destroyed, Free, Threads, life, mail, calls, thread
<1>4. Running'
  BY <1>t, RuntimeAssumption, <1>f, <1>g, <1>h DEF TypeOK, Threading, Running, Starting, Registered, Runs, Destroyed, Free, Threads, life, mail, calls, thread
<1>5. Starting'
  BY <1>t, RuntimeAssumption, <1>f, <1>g, <1>h DEF TypeOK, Threading, Running, Starting, Registered, Runs, Destroyed, Free, Threads, life, mail, calls, thread
<1>6. Requesting'
  BY <1>t, RuntimeAssumption, <1>f, <1>g, <1>h DEF TypeOK, Threading, Requesting, Running, Runs, Destroyed, Free, Threads, life, mail, calls, thread
<1>7. Registered'
  BY <1>t, RuntimeAssumption, <1>f, <1>g, <1>h DEF TypeOK, Threading, Registered, Running, Starting, Runs, Refers, RefKinds, Holders, Destroyed, Free, Threads, life, mail, calls, thread
<1>8. Dead' /\ DestroyedOnce'
  BY <1>t, RuntimeAssumption, <1>f, <1>g, <1>h DEF TypeOK, Dead, DestroyedOnce, Destroyed, Free, Threads, life, mail, calls, thread
<1>9. QED
  BY <1>1, <1>2, <1>3, <1>4, <1>5, <1>6, <1>7, <1>8 DEF IInv, Struct, Balanced

(* The registry references the new process.                                 *)
LEMMA CreateIInv ==
  ASSUME IInv, NEW t \in Threads, NEW p \in Processes, Create(t, p)
  PROVE  IInv'
<1>t. TypeOK /\ Balanced /\ Threading /\ Running /\ Starting /\ Requesting /\ Registered /\ Dead /\ DestroyedOnce
  BY DEF IInv, Struct
<1>f. /\ \A k \in RefKinds, x \in Holders : ~Refers(k, x, p)
      /\ place[p] = "none"
  BY <1>t DEF Registered, Create, Refers, RefKinds, Holders, TypeOK
<1>g. count[p] = 0
  <2>1. Refs(p) = {}
    BY <1>f DEF Refs, Holders
  <2>2. QED BY <1>t, <2>1, FS_EmptySet DEF Balanced, Balance
<1>h. /\ p \notin reg
      /\ \A u \in Threads : cur[u] # p /\ found[u] # p
      /\ \A q \in Processes : waits[q] # p
  BY <1>f DEF Refers, RefKinds, Holders
<1>1. TypeOK'
  BY <1>t, RuntimeAssumption, <1>f, <1>g, <1>h DEF TypeOK, Kinds, Create, Free, Threads, life, mail, calls, thread
<1>2. ASSUME NEW r \in Processes PROVE Balance(r)'
  <2>1. CASE r = p
    <3>1. "registry" \in RefKinds /\ p \in Holders /\ ~Refers("registry", p, r)
      BY <1>t, <2>1, RuntimeAssumption, <1>f, <1>g DEF Refers, Create, Free, RefKinds, Holders, Threading, Running, Runs, Starting, Requesting, TypeOK, Threads, life, mail, calls, thread
    <3>2. \A k \in RefKinds, x \in Holders : Refers(k, x, r)' <=> Refers(k, x, r) \/ (k = "registry" /\ x = p)
      BY <1>t, <2>1, RuntimeAssumption, <1>f, <1>g DEF TypeOK, Threading, Running, Runs, Starting, Requesting, Refers, RefKinds, Holders, Create, Free, RefKinds, Holders, Threads, life, mail, calls, thread
    <3>3. count'[r] = count[r] + 1
      BY <1>t, <2>1, RuntimeAssumption, <1>f, <1>g DEF TypeOK, Create, Free, RefKinds, Holders, Running, Runs, life, mail, calls, thread
    <3>4. Balance(r)
      BY <1>t DEF Balanced
    <3>5. QED
      BY <3>1, <3>2, <3>3, <3>4, AddRef
  <2>2. CASE r # p
    BY <1>t, <2>2, <1>f, <1>g, KeepRefs, RuntimeAssumption DEF TypeOK, Balanced, Threading, Running, Runs, Refers, RefKinds, Holders, Threads, Create, Free, RefKinds, Holders, life, mail, calls, thread
  <2>3. QED BY <2>1, <2>2
<1>3. Threading'
  BY <1>t, RuntimeAssumption, <1>f, <1>g, <1>h DEF TypeOK, Threading, Create, Free, Threads, life, mail, calls, thread
<1>4. Running'
  BY <1>t, RuntimeAssumption, <1>f, <1>g, <1>h DEF TypeOK, Threading, Running, Starting, Registered, Runs, Create, Free, Threads, life, mail, calls, thread
<1>5. Starting'
  BY <1>t, RuntimeAssumption, <1>f, <1>g, <1>h DEF TypeOK, Threading, Running, Starting, Registered, Runs, Create, Free, Threads, life, mail, calls, thread
<1>6. Requesting'
  BY <1>t, RuntimeAssumption, <1>f, <1>g, <1>h DEF TypeOK, Threading, Requesting, Running, Runs, Create, Free, Threads, life, mail, calls, thread
<1>7. Registered'
  BY <1>t, RuntimeAssumption, <1>f, <1>g, <1>h DEF TypeOK, Threading, Registered, Running, Starting, Runs, Refers, RefKinds, Holders, Create, Free, Threads, life, mail, calls, thread
<1>8. Dead' /\ DestroyedOnce'
  BY <1>t, RuntimeAssumption, <1>f, <1>g, <1>h DEF TypeOK, Dead, DestroyedOnce, Create, Free, Threads, life, mail, calls, thread
<1>9. QED
  BY <1>1, <1>2, <1>3, <1>4, <1>5, <1>6, <1>7, <1>8 DEF IInv, Struct, Balanced

(* One reference more, while another changes its holder.                    *)
LEMMA AddMoveRef ==
  ASSUME NEW p, Balance(p), count'[p] = count[p] + 1,
         NEW j \in RefKinds, NEW y \in Holders, Refers(j, y, p),
         NEW i \in RefKinds, NEW z \in Holders, ~Refers(i, z, p),
         NEW h \in RefKinds, NEW v \in Holders, ~Refers(h, v, p), ~(i = h /\ z = v),
         \A k \in RefKinds, x \in Holders :
           Refers(k, x, p)' <=> (Refers(k, x, p) /\ ~(k = j /\ x = y)) \/ (k = i /\ x = z) \/ (k = h /\ x = v)
  PROVE  Balance(p)'
<1> DEFINE S == Refs(p) \ {<<j, y>>}
<1>1. Refs(p)' = (S \cup {<<i, z>>}) \cup {<<h, v>>}
  BY DEF Refs, Holders
<1>2. <<j, y>> \in Refs(p) /\ <<i, z>> \notin Refs(p) /\ <<h, v>> \notin Refs(p) /\ <<i, z>> # <<h, v>>
  BY DEF Refs, Holders
<1>3. IsFiniteSet(S) /\ Cardinality(S) = Cardinality(Refs(p)) - 1
  BY <1>2, FS_RemoveElement DEF Balance
<1>4. <<i, z>> \notin S /\ <<h, v>> \notin S \cup {<<i, z>>}
  BY <1>2
<1>5. IsFiniteSet(S \cup {<<i, z>>}) /\ Cardinality(S \cup {<<i, z>>}) = Cardinality(Refs(p)) - 1 + 1
  BY <1>3, <1>4, FS_AddElement
<1> DEFINE U == S \cup {<<i, z>>}
<1>6. IsFiniteSet(U \cup {<<h, v>>}) /\ Cardinality(U \cup {<<h, v>>}) = Cardinality(U) + 1
  <2>1. IsFiniteSet(U) /\ <<h, v>> \notin U
    BY <1>4, <1>5
  <2> HIDE DEF U
  <2>2. QED BY <2>1, FS_AddElement
<1>7. Cardinality(Refs(p)) \in Nat
  BY FS_CardinalityType DEF Balance
<1>8. QED
  BY <1>1, <1>5, <1>6, <1>7 DEF Balance

(* A push that queues the process references it for the queue.              *)
LEMMA PushPlainIInv ==
  ASSUME IInv, NEW t \in Threads, Push(t), want[t] # "request"
  PROVE  IInv'
<1>t. TypeOK /\ Balanced /\ Threading /\ Running /\ Starting /\ Requesting /\ Registered /\ Dead /\ DestroyedOnce
  BY DEF IInv, Struct
<1>f. PICK z \in Processes : z = found[t]
  BY <1>t, RuntimeAssumption DEF TypeOK, Threading, Push, Kinds
<1>g. Balance(z) /\ count[z] \in Nat /\ count[z] > 0
  <2>1. Balance(z) /\ "found" \in RefKinds /\ t \in Holders /\ Refers("found", t, z)
    BY <1>t, <1>f DEF Balanced, RefKinds, Holders, Refers
  <2>2. QED BY <2>1, Counted
<1>p. place[z] = "parked" => z \in reg /\ \A w \in Threads : (Runs(w) => cur[w] # z) /\ fresh[w] # z
  BY <1>t, <1>f, RuntimeAssumption DEF TypeOK, Registered, Running, Starting
<1>1. TypeOK'
  BY <1>t, RuntimeAssumption, <1>f, <1>g, <1>p DEF TypeOK, Kinds, Push, Resume, Threads, life, mail, calls, thread
<1>2. ASSUME NEW r \in Processes PROVE Balance(r)'
  <2>1. CASE r = z /\ place[z] = "parked"
    <3>1. "queue" \in RefKinds /\ r \in Holders /\ ~Refers("queue", r, r) /\ count'[r] = count[r] + 1
      BY <1>t, <1>f, RuntimeAssumption, <2>1 DEF TypeOK, Refers, RefKinds, Holders, Push, Resume
    <3>2. \A k \in RefKinds, x \in Holders : Refers(k, x, r)' <=> Refers(k, x, r) \/ (k = "queue" /\ x = r)
      BY <1>t, <1>f, RuntimeAssumption, <2>1 DEF TypeOK, Threading, Running, Runs, Starting, Requesting, Registered, Refers, RefKinds, Holders, Push, Resume, Kinds, Threads, life, mail, calls, thread
    <3>3. QED BY <1>g, <2>1, <3>1, <3>2, AddRef
  <2>2. CASE ~(r = z /\ place[z] = "parked")
    <3>1. count'[r] = count[r]
      BY <1>t, <1>f, RuntimeAssumption, <2>2 DEF TypeOK, Push, Resume
    <3>2. \A k \in RefKinds, x \in Holders : Refers(k, x, r)' <=> Refers(k, x, r)
      BY <1>t, <1>f, RuntimeAssumption, <2>2 DEF TypeOK, Threading, Running, Runs, Starting, Requesting, Registered, Refers, RefKinds, Holders, Push, Resume, Kinds, Threads, life, mail, calls, thread
    <3>3. QED BY <1>t, <3>1, <3>2, KeepRefs DEF Balanced
  <2>3. QED BY <2>1, <2>2
<1>3. Threading'
  BY <1>t, RuntimeAssumption, <1>f, <1>g, <1>p DEF TypeOK, Threading, Push, Resume, Threads, life, mail, calls, thread
<1>4. Running'
  BY <1>t, RuntimeAssumption, <1>f, <1>g, <1>p DEF TypeOK, Threading, Running, Starting, Registered, Runs, Push, Resume, Threads, life, mail, calls, thread
<1>5. Starting'
  BY <1>t, RuntimeAssumption, <1>f, <1>g, <1>p DEF TypeOK, Threading, Running, Starting, Registered, Runs, Push, Resume, Threads, life, mail, calls, thread
<1>6. Requesting'
  BY <1>t, RuntimeAssumption, <1>f, <1>g, <1>p DEF TypeOK, Threading, Requesting, Running, Runs, Push, Resume, Threads, life, mail, calls, thread
<1>7. Registered'
  BY <1>t, RuntimeAssumption, <1>f, <1>g, <1>p DEF TypeOK, Threading, Registered, Running, Starting, Runs, Refers, RefKinds, Holders, Push, Resume, Threads, life, mail, calls, thread
<1>8. Dead' /\ DestroyedOnce'
  BY <1>t, RuntimeAssumption, <1>f, <1>g, <1>p DEF TypeOK, Dead, DestroyedOnce, Push, Resume, Threads, life, mail, calls, thread
<1>9. QED
  BY <1>1, <1>2, <1>3, <1>4, <1>5, <1>6, <1>7, <1>8 DEF IInv, Struct, Balanced

(* request() keeps the reference of what it found, for its coroutine.       *)
LEMMA PushRequestIInv ==
  ASSUME IInv, NEW t \in Threads, Push(t), want[t] = "request"
  PROVE  IInv'
<1>t. TypeOK /\ Balanced /\ Threading /\ Running /\ Starting /\ Requesting /\ Registered /\ Dead /\ DestroyedOnce
  BY DEF IInv, Struct
<1>f. PICK z \in Processes : z = found[t]
  BY <1>t, RuntimeAssumption DEF TypeOK, Threading, Push, Kinds
<1>g. Balance(z) /\ count[z] \in Nat /\ count[z] > 0
  <2>1. Balance(z) /\ "found" \in RefKinds /\ t \in Holders /\ Refers("found", t, z)
    BY <1>t, <1>f DEF Balanced, RefKinds, Holders, Refers
  <2>2. QED BY <2>1, Counted
<1>p. place[z] = "parked" => z \in reg /\ \A w \in Threads : (Runs(w) => cur[w] # z) /\ fresh[w] # z
  BY <1>t, <1>f, RuntimeAssumption DEF TypeOK, Registered, Running, Starting
<1>c. PICK c \in Processes : c = cur[t] /\ waits[c] = None
  BY <1>t DEF Requesting
<1>1. TypeOK'
  BY <1>t, RuntimeAssumption, <1>f, <1>g, <1>p, <1>c DEF TypeOK, Kinds, Push, Resume, Threads, life, mail, calls, thread
<1>2. ASSUME NEW r \in Processes PROVE Balance(r)'
  <2>0. /\ "found" \in RefKinds /\ t \in Holders /\ "waits" \in RefKinds /\ c \in Holders
        /\ "queue" \in RefKinds /\ z \in Holders
        /\ Refers("found", t, z) /\ ~Refers("waits", c, z)
    BY <1>t, <1>f, RuntimeAssumption, <1>c DEF Refers, RefKinds, Holders
  <2>1. CASE r = z /\ place[z] = "parked"
    <3>0. Balance(r) /\ r \in Holders /\ Refers("found", t, r) /\ ~Refers("waits", c, r)
      BY <1>g, <2>0, <2>1
    <3>1. ~Refers("queue", r, r) /\ count'[r] = count[r] + 1
      BY <1>t, <1>f, RuntimeAssumption, <2>1 DEF TypeOK, Refers, Push, Resume
    <3>2. \A k \in RefKinds, x \in Holders :
            Refers(k, x, r)' <=> (Refers(k, x, r) /\ ~(k = "found" /\ x = t)) \/ (k = "waits" /\ x = c) \/ (k = "queue" /\ x = r)
      BY <1>t, <1>f, RuntimeAssumption, <1>c, <2>1 DEF TypeOK, Threading, Running, Runs, Starting, Requesting, Registered, Refers, RefKinds, Holders, Push, Resume, Kinds, Threads, life, mail, calls, thread
    <3>3. QED BY <2>0, <3>0, <3>1, <3>2, AddMoveRef
  <2>2. CASE r = z /\ place[z] # "parked"
    <3>0. Balance(r) /\ r \in Holders /\ Refers("found", t, r) /\ ~Refers("waits", c, r)
      BY <1>g, <2>0, <2>2
    <3>1. count'[r] = count[r]
      BY <1>t, <1>f, RuntimeAssumption, <2>2 DEF TypeOK, Push, Resume
    <3>2. \A k \in RefKinds, x \in Holders :
            Refers(k, x, r)' <=> (Refers(k, x, r) /\ ~(k = "found" /\ x = t)) \/ (k = "waits" /\ x = c)
      BY <1>t, <1>f, RuntimeAssumption, <1>c, <2>2 DEF TypeOK, Threading, Running, Runs, Starting, Requesting, Registered, Refers, RefKinds, Holders, Push, Resume, Kinds, Threads, life, mail, calls, thread
    <3>3. QED BY <2>0, <3>0, <3>1, <3>2, MoveRef
  <2>3. CASE r # z
    <3>1. count'[r] = count[r]
      BY <1>t, <1>f, RuntimeAssumption, <2>3 DEF TypeOK, Push, Resume
    <3>2. \A k \in RefKinds, x \in Holders : Refers(k, x, r)' <=> Refers(k, x, r)
      BY <1>t, <1>f, RuntimeAssumption, <1>c, <2>3 DEF TypeOK, Threading, Running, Runs, Starting, Requesting, Registered, Refers, RefKinds, Holders, Push, Resume, Kinds, Threads, life, mail, calls, thread
    <3>3. QED BY <1>t, <3>1, <3>2, KeepRefs DEF Balanced
  <2>4. QED BY <2>1, <2>2, <2>3
<1>3. Threading'
  BY <1>t, RuntimeAssumption, <1>f, <1>g, <1>p, <1>c DEF TypeOK, Threading, Push, Resume, Threads, life, mail, calls, thread
<1>4. Running'
  BY <1>t, RuntimeAssumption, <1>f, <1>g, <1>p, <1>c DEF TypeOK, Threading, Running, Starting, Registered, Runs, Push, Resume, Threads, life, mail, calls, thread
<1>5. Starting'
  BY <1>t, RuntimeAssumption, <1>f, <1>g, <1>p, <1>c DEF TypeOK, Threading, Running, Starting, Registered, Runs, Push, Resume, Threads, life, mail, calls, thread
<1>6. Requesting'
  BY <1>t, RuntimeAssumption, <1>f, <1>g, <1>p, <1>c DEF TypeOK, Threading, Requesting, Running, Runs, Push, Resume, Threads, life, mail, calls, thread
<1>7. Registered'
  BY <1>t, RuntimeAssumption, <1>f, <1>g, <1>p, <1>c DEF TypeOK, Threading, Registered, Running, Starting, Runs, Refers, RefKinds, Holders, Push, Resume, Threads, life, mail, calls, thread
<1>8. Dead' /\ DestroyedOnce'
  BY <1>t, RuntimeAssumption, <1>f, <1>g, <1>p, <1>c DEF TypeOK, Dead, DestroyedOnce, Push, Resume, Threads, life, mail, calls, thread
<1>9. QED
  BY <1>1, <1>2, <1>3, <1>4, <1>5, <1>6, <1>7, <1>8 DEF IInv, Struct, Balanced

(* Nothing is referenced at first.                                          *)
LEMMA InitIInv == Init => IInv
<1> SUFFICES ASSUME Init PROVE IInv
  OBVIOUS
<1>1. \A p \in Processes, k \in RefKinds, x \in Holders : ~Refers(k, x, p)
  BY RuntimeAssumption DEF Init, Refers, Holders, Threads
<1>2. Balanced
  <2>1. \A p \in Processes : Refs(p) = {}
    BY <1>1 DEF Refs, Holders
  <2>2. QED BY <2>1, FS_EmptySet DEF Balanced, Balance, Init
<1>3. TypeOK
  BY DEF Init, TypeOK, Threads
<1>4. Struct
  BY <1>1, RuntimeAssumption DEF Init, Struct, Threading, Running, Runs, Starting, Requesting, Registered, Threads
<1>5. Dead /\ DestroyedOnce
  BY DEF Init, Dead, DestroyedOnce
<1>6. QED
  BY <1>2, <1>3, <1>4, <1>5 DEF IInv

(* A step that changes nothing.                                             *)
LEMMA StutterIInv == ASSUME IInv, UNCHANGED vars PROVE IInv'
<1>1. UNCHANGED <<reg, count, status, place, more, killed, asked, waits, answered, pc, cur, found, want, dying, fresh>>
  BY DEF vars, life, mail, calls, thread
<1>2. \A p \in Processes : Balance(p)'
  BY <1>1, KeepRefs DEF IInv, Balanced, Refers
<1>3. Struct'
  BY <1>1 DEF IInv, Struct, Threading, Running, Runs, Starting, Requesting, Registered, Refers
<1>4. TypeOK' /\ Dead' /\ DestroyedOnce'
  BY <1>1 DEF IInv, TypeOK, Dead, DestroyedOnce
<1>5. QED
  BY <1>2, <1>3, <1>4 DEF IInv, Balanced

(* Every step keeps the invariant.                                          *)
LEMMA NextIInv == IInv /\ [Next]_vars => IInv'
<1> SUFFICES ASSUME IInv, [Next]_vars PROVE IInv'
  OBVIOUS
<1>1. ASSUME NEW t \in Threads, Inner(t) PROVE IInv'
  BY <1>1, StartIInv, PushPlainIInv, PushRequestIInv, DropIInv, AbortFoundIInv, AbortLostIInv, DestroyedIInv DEF Inner
<1>2. ASSUME NEW w \in Workers, Outer(w) \/ Ends(w) PROVE IInv'
  BY <1>2, InterruptedIInv, UnregIInv, RetireIInv, ReleaseIInv, RequeueIInv, ParkIInv, GoDownIInv DEF Outer, Ends
<1>3. QED
  BY <1>1, <1>2, StutterIInv, CreateIInv, FindIInv, AnswerIInv, PickIInv, ResponseLostIInv DEF Next

(* The variables keep their types.                                          *)
THEOREM TypeCorrect == SafeSpec => []TypeOK
<1>1. IInv => TypeOK
  BY DEF IInv
<1>2. QED
  BY <1>1, InitIInv, NextIInv, PTL DEF SafeSpec

(* The reference count of a process is the number of references to it:      *)
(* registry, run queue, workers, ProcessUniquePtrs and waiting requesters.  *)
THEOREM CountIsBalance == SafeSpec => []RefBalance
<1>1. IInv => RefBalance
  BY DEF IInv, Balanced, Balance, RefBalance
<1>2. QED
  BY <1>1, InitIInv, NextIInv, PTL DEF SafeSpec

(* No reference, and no spawn() under way, leads to a process whose         *)
(* destructor runs or has run.                                              *)
THEOREM NothingDangles == SafeSpec => []NoDangling
<1>1. ASSUME IInv PROVE NoDangling
  <2>1. ASSUME NEW p \in Processes, status[p] = "destroyed" \/ \E t \in Threads : p \in dying[t]
        PROVE  Refs(p) = {} /\ \A t \in Threads : fresh[t] # p
    <3>1. Balance(p) /\ count[p] = 0
      BY <1>1, <2>1 DEF IInv, Balanced, Dead
    <3>2. Refs(p) = {}
      BY <3>1, Counted
    <3>3. p \notin reg
      <4>1. p \in reg => <<"registry", p>> \in Refs(p)
        BY DEF Refs, Refers, RefKinds
      <4>2. QED BY <3>2, <4>1
    <3>4. QED BY <1>1, <2>1, <3>2, <3>3, RuntimeAssumption DEF IInv, Struct, Starting
  <2>2. QED BY <2>1 DEF NoDangling
<1>2. QED
  BY <1>1, InitIInv, NextIInv, PTL DEF SafeSpec

(* A process is destroyed by one thread, and only when it is down.          *)
THEOREM DestroyedByOne == SafeSpec => []DestroyedOnce
<1>1. IInv => DestroyedOnce
  BY DEF IInv
<1>2. QED
  BY <1>1, InitIInv, NextIInv, PTL DEF SafeSpec

-----------------------------------------------------------------------------
(* Whoever waits for an answer is registered: it can be found by whoever    *)
(* answers.                                                                 *)
Findable == \A p \in Processes : waits[p] # None => p \in reg

Kept == Findable /\ RequestKept

(* Steps that neither ask, nor answer, nor take a process off the registry. *)
LEMMA OtherKept ==
  ASSUME Kept, UNCHANGED <<waits, answered, asked>>, reg \subseteq reg'
  PROVE  Kept'
BY DEF Kept, Findable, RequestKept

(* A request is pushed, or a response.                                      *)
LEMMA PushKept ==
  ASSUME IInv, Kept, NEW t \in Threads, Push(t)
  PROVE  Kept'
<1>1. CASE want[t] \in {"notify", "kill", "abort"}
  BY <1>1, OtherKept DEF Push, calls
<1>2. CASE want[t] = "request"
  <2>1. /\ cur[t] \in Processes /\ cur[t] \in reg /\ found[t] \in Processes
    BY <1>2, RuntimeAssumption DEF IInv, Struct, Requesting, Running, Runs, Threading, TypeOK
  <2>2. /\ waits' = [waits EXCEPT ![cur[t]] = found[t]]
        /\ asked' = [asked EXCEPT ![found[t]] = @ \cup {cur[t]}]
        /\ answered' = answered \ {cur[t]} /\ reg' = reg
    BY <1>2 DEF Push
  <2>3. Findable'
    BY <2>1, <2>2 DEF Kept, Findable, IInv, TypeOK
  <2>4. RequestKept'
    BY <2>1, <2>2 DEF Kept, RequestKept, IInv, TypeOK
  <2>5. QED BY <2>3, <2>4 DEF Kept
<1>3. CASE want[t] = "response"
  <2>1. /\ asked' = [asked EXCEPT ![cur[t]] = @ \ {found[t]}]
        /\ answered' = IF waits[found[t]] = cur[t] THEN answered \cup {found[t]} ELSE answered
        /\ UNCHANGED <<waits, reg>>
    BY <1>3 DEF Push
  <2>2. Findable'
    BY <2>1 DEF Kept, Findable
  <2>3. RequestKept'
    BY <2>1 DEF Kept, RequestKept, IInv, TypeOK
  <2>4. QED BY <2>2, <2>3 DEF Kept
<1>4. QED
  BY <1>1, <1>2, <1>3 DEF Push, Kinds

(* The requester takes its answer, or is interrupted.                       *)
LEMMA WaitEndsKept ==
  ASSUME IInv, Kept, NEW w \in Workers, Answer(w) \/ Interrupted(w)
  PROVE  Kept'
<1>1. waits' = [waits EXCEPT ![cur[w]] = None] /\ UNCHANGED <<asked, reg>>
  BY DEF Answer, Interrupted, mail
<1>2. answered \ {cur[w]} \subseteq answered'
  BY DEF Answer, Interrupted
<1>3. waits \in [Processes -> Processes \cup {None}]
  BY DEF IInv, TypeOK
<1>4. Findable'
  BY <1>1, <1>3 DEF Kept, Findable
<1>5. RequestKept'
  BY <1>1, <1>2, <1>3, RuntimeAssumption DEF Kept, RequestKept
<1>6. QED BY <1>4, <1>5 DEF Kept

(* An answer is lost only when nobody can wait for it.                      *)
LEMMA ResponseLostKept ==
  ASSUME IInv, Kept, NEW w \in Workers, NEW p \in Processes, ResponseLost(w, p)
  PROVE  Kept'
<1>1. /\ p \notin reg /\ asked' = [asked EXCEPT ![cur[w]] = @ \ {p}]
      /\ UNCHANGED <<waits, answered, reg>>
  BY DEF ResponseLost, life, calls
<1>2. waits[p] = None
  BY <1>1 DEF Kept, Findable
<1>3. Findable'
  BY <1>1 DEF Kept, Findable
<1>4. RequestKept'
  BY <1>1, <1>2, RuntimeAssumption DEF Kept, RequestKept, IInv, TypeOK
<1>5. QED BY <1>3, <1>4 DEF Kept

(* A destructor aborts requests nobody waits for: a requester that waits    *)
(* references the process.                                                  *)
LEMMA AbortKept ==
  ASSUME IInv, Kept, NEW t \in Threads, NEW q \in Processes, NEW p \in Processes, Abort(t, q, p)
  PROVE  Kept'
<1>1. /\ asked' = [asked EXCEPT ![q] = @ \ {p}]
      /\ UNCHANGED <<waits, answered, reg>>
  BY DEF Abort, calls, Found
<1>2. count[q] = 0 /\ Balance(q)
  BY DEF Abort, IInv, Dead, Balanced
<1>3. waits[p] # q
  <2>1. waits[p] = q => Refers("waits", p, q)
    BY DEF Refers
  <2>2. QED BY <1>2, <2>1, Counted DEF RefKinds, Holders
<1>4. Findable'
  BY <1>1 DEF Kept, Findable
<1>5. RequestKept'
  BY <1>1, <1>3 DEF Kept, RequestKept, IInv, TypeOK
<1>6. QED BY <1>4, <1>5 DEF Kept

LEMMA NextKept == IInv /\ Kept /\ [Next]_vars => Kept'
<1> SUFFICES ASSUME IInv, Kept, [Next]_vars PROVE Kept'
  OBVIOUS
<1>1. ASSUME NEW t \in Threads, Inner(t) PROVE Kept'
  <2>1. CASE Start(t) \/ Drop(t) \/ \E q \in Processes : Destroyed(t, q)
    BY <2>1, OtherKept DEF Start, Drop, Destroyed, mail, calls
  <2>2. QED
    BY <1>1, <2>1, PushKept, AbortKept DEF Inner
<1>2. ASSUME NEW t \in Threads, NEW p \in Processes, Create(t, p) \/ \E k \in Kinds : Find(t, p, k)
      PROVE  Kept'
  BY <1>2, OtherKept DEF Create, Find, mail, calls
<1>3. ASSUME NEW w \in Workers,
             Retire(w) \/ Release(w) \/ Ends(w) \/ \E p \in Processes : Pick(w, p)
      PROVE  Kept'
  BY <1>3, OtherKept DEF Retire, Release, Ends, Requeue, Park, GoDown, Pick, mail, calls, life
<1>4. ASSUME NEW w \in Workers, Unreg(w) PROVE Kept'
  BY <1>4 DEF Unreg, Kept, Findable, RequestKept, mail, calls
<1>5. CASE UNCHANGED vars
  BY <1>5, OtherKept DEF vars, life, mail, calls
<1>6. QED
  BY <1>1, <1>2, <1>3, <1>4, <1>5, WaitEndsKept, ResponseLostKept DEF Next, Outer

(* A requester that waits has its request in some process, or its answer:   *)
(* no answer is lost on the way and no request forgotten.                   *)
THEOREM RequestsAreKept == SafeSpec => []RequestKept
<1>1. Init => Kept
  <2>1. SUFFICES ASSUME Init PROVE Kept
    OBVIOUS
  <2>2. \A p \in Processes : waits[p] = None
    BY <2>1 DEF Init
  <2>3. Findable
    BY <2>2 DEF Findable
  <2>4. RequestKept
    BY <2>2, RuntimeAssumption DEF RequestKept
  <2>5. QED
    BY <2>3, <2>4 DEF Kept
<1>2. Kept => RequestKept
  BY DEF Kept
<1>3. QED
  BY <1>1, <1>2, InitIInv, NextIInv, NextKept, PTL DEF SafeSpec
=============================================================================
