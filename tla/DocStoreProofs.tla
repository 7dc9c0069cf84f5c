--------------------------- MODULE DocStoreProofs ---------------------------
(***************************************************************************)
(* Document ids and the records of a page, for every set of pages, every   *)
(* number of workers and processes, and every place where one may die.     *)
(***************************************************************************)
EXTENDS DocStore, TLAPS

LEMMA EightFamilies ==
    /\ Len(Families) = 8
    /\ \A f : f \in Family <=> \E i \in 1 .. 8 : f = Families[i]
<1>1. Len(Families) = 8
  BY DEF Families
<1>2. QED
  BY <1>1 DEF Family

\* The step of a worker that stores a page, without what the puts hold.
LEMMA PutCases ==
    ASSUME NEW w \in Worker, Put(w), TypeOK
    PROVE  \/ pc'[w] = "put" /\ job[w].puts + 1 < 8
           \/ pc'[w] = "domain" /\ job[w].puts + 1 = 8 /\ job[w].new
           \/ pc'[w] = "idle" /\ job[w].puts + 1 = 8 /\ ~job[w].new
<1>1. job[w] \in Job /\ job[w].puts < 8
  BY EightFamilies DEF TypeOK, Put
<1>2. QED
  BY <1>1, EightFamilies DEF Put, TypeOK, FamiliesPut, AfterPuts, Job

LEMMA PutJob ==
    ASSUME NEW w \in Worker, Put(w), TypeOK, pc'[w] # "idle"
    PROVE  job' = [job EXCEPT ![w] = [job[w] EXCEPT !.puts = @ + 1]]
BY DEF Put, TypeOK

(***************************************************************************)
(* Types, and who may hold which job.                                      *)
(***************************************************************************)

JobShape ==
    \A w \in Worker :
      /\ pc[w] \in {"lock", "set_next"} => job[w].puts = 0
      /\ pc[w] \in {"set_next", "put", "domain"} => job[w].id # 0

Typed == TypeOK /\ JobShape

LEMMA NoJobIsNone == NoJob \notin Job
BY DocAssumption DEF NoJob, Job

\* Before a page is taken its id, if it has one, is a real one.
LEMMA TypedStep == Typed /\ [Next]_vars => Typed'
<1> SUFFICES ASSUME Typed, [Next]_vars PROVE Typed'
  OBVIOUS
<1> USE DocAssumption, NoJobIsNone, EightFamilies DEF Typed, TypeOK, JobShape
<1>1. CASE Start
  BY <1>1 DEF Start, tableVars
<1>2. CASE Stop
  BY <1>2 DEF Stop, tableVars, NoJob
<1>3. ASSUME NEW w \in Worker, NEW h \in Hash, NEW p \in Page, Fetched(w, h, p)
      PROVE  Typed'
  <2>1. PICK j \in Job : /\ job' = [job EXCEPT ![w] = j]
                         /\ j.puts = 0
                         /\ j.new <=> doc_id[h] = 0
                         /\ ~j.new => j.id # 0
    <3> DEFINE j == [hash |-> h, page |-> p, id |-> IF doc_id[h] = 0 THEN 0 ELSE doc_id[h],
                     new |-> doc_id[h] = 0, puts |-> 0]
    <3>1. j \in Job
      BY DEF Job
    <3>2. job' = [job EXCEPT ![w] = j]
      BY <1>3 DEF Fetched, Begin
    <3>3. QED
      BY <3>1, <3>2
  <2>2. /\ pc[w] = "idle" /\ running
        /\ pc' = [pc EXCEPT ![w] = IF j.new THEN "lock" ELSE "put"]
        /\ open' \subseteq Hash
    BY <1>3, <2>1 DEF Fetched, Begin, Job
  <2>3. UNCHANGED <<tableVars, processVars>>
    BY <1>3 DEF Fetched, Begin
  <2>4. QED
    BY <2>1, <2>2, <2>3 DEF tableVars, processVars
<1>4. ASSUME NEW w \in Worker, GetNextDocId(w) PROVE Typed'
  <2> DEFINE j == [job[w] EXCEPT !.id = next_doc_id]
  <2>1. job[w] \in Job /\ job[w].new
    BY <1>4 DEF GetNextDocId
  <2>2. j \in Job /\ j.new /\ j.id # 0 /\ j.puts = 0
    BY <1>4, <2>1 DEF GetNextDocId, Job
  <2>3. job' = [job EXCEPT ![w] = j]
    BY <1>4 DEF GetNextDocId
  <2> HIDE DEF j
  <2>4. QED
    BY <1>4, <2>2, <2>3 DEF GetNextDocId, tableVars, processVars
<1>5. ASSUME NEW w \in Worker, SetNextDocId(w) PROVE Typed'
  <2>1. job[w] \in Job
    BY <1>5 DEF SetNextDocId
  <2>2. QED
    BY <1>5, <2>1 DEF SetNextDocId, processVars, Job
<1>6. ASSUME NEW w \in Worker, Put(w) PROVE Typed'
  <2>1. job[w] \in Job /\ job[w].puts < 8 /\ job[w].id # 0
    BY <1>6 DEF Put
  <2>2. rec' \in [Hash -> [Family -> Page \cup {NoPage}]]
    <3>1. /\ Families[job[w].puts + 1] \in Family
          /\ job[w].hash \in Hash /\ job[w].page \in Page
      BY <2>1 DEF Job
    <3>2. QED
      BY <1>6, <3>1 DEF Put
  <2>3. doc_id' \in [Hash -> 0 .. MaxDocId] /\ open' \subseteq Hash
    BY <1>6, <2>1 DEF Put, Job
  <2>4. PICK j \in Job \cup {NoJob} :
            /\ job' = [job EXCEPT ![w] = j]
            /\ pc'[w] = "idle" <=> j = NoJob
            /\ pc'[w] # "idle" => /\ j = [job[w] EXCEPT !.puts = @ + 1]
                                  /\ j.new = job[w].new /\ j.id = job[w].id
                                  /\ j.puts = job[w].puts + 1
    <3>1. CASE pc'[w] = "idle"
      BY <1>6, <3>1 DEF Put
    <3>2. CASE pc'[w] # "idle"
      <4> DEFINE j == [job[w] EXCEPT !.puts = @ + 1]
      <4>1. j \in Job
        BY <1>6, <2>1, <3>2, PutCases DEF Job
      <4>2. job' = [job EXCEPT ![w] = j]
        BY <1>6, <3>2, PutJob
      <4>3. /\ j = [job[w] EXCEPT !.puts = @ + 1]
            /\ j.new = job[w].new /\ j.id = job[w].id
            /\ j.puts = job[w].puts + 1
            /\ j # NoJob
        BY <2>1, <4>1 DEF Job
      <4> HIDE DEF j
      <4>4. QED
        BY <3>2, <4>1, <4>2, <4>3
    <3>3. QED
      BY <3>1, <3>2
  <2>5. pc' = [pc EXCEPT ![w] = pc'[w]] /\ pc'[w] \in {"idle", "put", "domain"}
        /\ running /\ UNCHANGED <<domain, next_doc_id, processVars>>
    BY <1>6, PutCases DEF Put
  <2>6. \/ pc'[w] = "put" /\ job[w].puts + 1 < 8
        \/ pc'[w] = "domain" /\ job[w].new
        \/ pc'[w] = "idle"
    BY <1>6, PutCases
  <2>7. QED
    BY <2>1, <2>2, <2>3, <2>4, <2>5, <2>6 DEF processVars
<1>7. ASSUME NEW w \in Worker, PutDomain(w) PROVE Typed'
  <2>1. job[w] \in Job
    BY <1>7 DEF PutDomain
  <2>2. QED
    BY <1>7, <2>1 DEF PutDomain, processVars, Job
<1>8. CASE UNCHANGED vars
  BY <1>8 DEF vars, tableVars, processVars
<1>9. QED
  BY <1>1, <1>2, <1>3, <1>4, <1>5, <1>6, <1>7, <1>8 DEF Next, WorkerStep

LEMMA TypedInit == Init => Typed
<1> SUFFICES ASSUME Init PROVE Typed
  OBVIOUS
<1> USE DEF Init
<1>1. /\ doc_id \in [Hash -> 0 .. MaxDocId] /\ next_doc_id \in 1 .. MaxDocId + 1
      /\ starts \in 0 .. MaxStarts
  BY DocAssumption
<1>2. rec \in [Hash -> [Family -> Page \cup {NoPage}]]
  OBVIOUS
<1>3. \A w \in Worker : pc[w] = "idle" /\ job[w] = NoJob
  OBVIOUS
<1>4. pc \in [Worker -> {"idle"}] /\ job \in [Worker -> {NoJob}]
  OBVIOUS
<1>5. QED
  BY <1>1, <1>2, <1>3, <1>4 DEF Typed, TypeOK, JobShape

LEMMA TypedAlways == Spec => []Typed
BY TypedInit, TypedStep, PTL DEF Spec

\* Every variable keeps its type; a worker that assigns an id or writes the
\* domain index has a new document (engine.cpp 161-275).
THEOREM DocStoreTypeCorrect == Spec => []TypeOK
<1>1. Typed => TypeOK
  BY DEF Typed
<1>2. QED
  BY <1>1, TypedAlways, PTL

(***************************************************************************)
(* Ids.  A worker is unput while the id of its new document is in no       *)
(* record; then nobody else has that id.                                   *)
(***************************************************************************)

Unput(w) ==
    \/ pc[w] \in {"lock", "set_next"}
    \/ pc[w] = "put" /\ job[w].new /\ job[w].puts = 0

HasId(w) == pc[w] \in {"set_next", "put", "domain"}

OneWorkerPerHash ==
    \A v, w \in Worker :
        v # w /\ pc[v] # "idle" /\ pc[w] # "idle" => job[v].hash # job[w].hash

IdOfWorker ==
    \A w \in Worker :
      /\ pc[w] = "set_next" => job[w].id = next_doc_id
      /\ pc[w] \in {"put", "domain"} => job[w].id < next_doc_id
      /\ Unput(w) => doc_id[job[w].hash] = 0
      /\ HasId(w) /\ ~Unput(w) => doc_id[job[w].hash] = job[w].id

NoIdTwice ==
    /\ \A w \in Worker, h \in Hash : Unput(w) /\ HasId(w) => doc_id[h] # job[w].id
    /\ \A v, w \in Worker : /\ v # w
                             /\ Unput(v) /\ HasId(v)
                             /\ Unput(w) /\ HasId(w)
                             => job[v].id # job[w].id

IdsCorrect ==
    /\ OneWorkerPerHash
    /\ IdOfWorker
    /\ NoIdTwice
    /\ DocIdsUnique
    /\ DomainLeadsToDoc

LEMMA IdsInit == Init => IdsCorrect
BY DEF Init, IdsCorrect, OneWorkerPerHash, IdOfWorker, NoIdTwice, DocIdsUnique,
   DomainLeadsToDoc, Unput, HasId

\* A put changes an id only from none to that of a new document.
LEMMA PutId ==
    ASSUME Typed, IdsCorrect, NEW w \in Worker, Put(w)
    PROVE  /\ \A h \in Hash : doc_id'[h] = IF Unput(w) /\ h = job[w].hash
                                           THEN job[w].id ELSE doc_id[h]
           /\ doc_id' \in [Hash -> Nat]
           /\ \A v \in Worker : v # w => pc'[v] = pc[v] /\ job'[v] = job[v]
           /\ pc'[w] # "idle" => /\ job'[w].hash = job[w].hash
                                 /\ job'[w].id = job[w].id
                                 /\ job'[w].puts = job[w].puts + 1
           /\ pc'[w] \in {"idle", "put", "domain"}
<1>1. /\ job[w] \in Job /\ pc[w] = "put" /\ job[w].id # 0
      /\ job[w].hash \in Hash /\ job[w].puts \in Nat /\ job[w].id \in 0 .. MaxDocId
      /\ MaxDocId \in Nat
  BY DocAssumption DEF Typed, TypeOK, JobShape, Put, Job
<1>2. doc_id' = IF job[w].puts = 0 THEN [doc_id EXCEPT ![job[w].hash] = job[w].id]
                ELSE doc_id
  BY DEF Put
<1>3. ~Unput(w) => doc_id[job[w].hash] = job[w].id
  BY <1>1 DEF IdsCorrect, IdOfWorker, HasId
<1>4. \A h \in Hash : doc_id'[h] = IF Unput(w) /\ h = job[w].hash
                                   THEN job[w].id ELSE doc_id[h]
  BY <1>1, <1>2, <1>3 DEF Unput, Typed, TypeOK
<1>5. doc_id' \in [Hash -> Nat]
  BY <1>1, <1>2 DEF Typed, TypeOK
<1>6. \A v \in Worker : v # w => pc'[v] = pc[v] /\ job'[v] = job[v]
  BY DEF Put, Typed, TypeOK
<1>7. pc'[w] \in {"idle", "put", "domain"}
  BY PutCases DEF Typed
<1>8. ASSUME pc'[w] # "idle"
      PROVE  /\ job'[w].hash = job[w].hash /\ job'[w].id = job[w].id
             /\ job'[w].puts = job[w].puts + 1
  <2>1. job' = [job EXCEPT ![w] = [job[w] EXCEPT !.puts = @ + 1]]
    BY <1>8, PutJob DEF Typed
  <2>2. QED
    BY <1>1, <2>1 DEF Job, Typed, TypeOK
<1>9. QED
  BY <1>4, <1>5, <1>6, <1>7, <1>8

LEMMA IdsStep == Typed /\ Typed' /\ IdsCorrect /\ [Next]_vars => IdsCorrect'
<1> SUFFICES ASSUME Typed, Typed', IdsCorrect, [Next]_vars PROVE IdsCorrect'
  OBVIOUS
<1> USE DEF IdsCorrect
<1>1. CASE Start
  BY <1>1 DEF Start, tableVars, OneWorkerPerHash, IdOfWorker, NoIdTwice, DocIdsUnique,
     DomainLeadsToDoc, Unput, HasId
<1>2. CASE Stop
  BY <1>2 DEF Stop, tableVars, OneWorkerPerHash, IdOfWorker, NoIdTwice, DocIdsUnique,
     DomainLeadsToDoc, Unput, HasId
<1>3. ASSUME NEW w \in Worker, NEW h \in Hash, NEW p \in Page, Fetched(w, h, p)
      PROVE  IdsCorrect'
  <2>1. /\ \A v \in Worker : v # w => pc'[v] = pc[v] /\ job'[v] = job[v]
        /\ pc'[w] = IF doc_id[h] = 0 THEN "lock" ELSE "put"
        /\ job'[w].hash = h /\ job'[w].new = (doc_id[h] = 0)
        /\ doc_id[h] # 0 => job'[w].id = doc_id[h]
        /\ \A v \in Worker : pc[v] # "idle" => job[v].hash # h
    BY <1>3 DEF Fetched, Begin, Typed, TypeOK
  <2>2. UNCHANGED <<doc_id, domain, next_doc_id>>
    BY <1>3 DEF Fetched, Begin, tableVars
  <2>3. doc_id[h] \in Nat /\ doc_id[h] < next_doc_id
    BY DocAssumption DEF Typed, TypeOK, DocIdsUnique
  <2>4. OneWorkerPerHash'
    BY <2>1 DEF OneWorkerPerHash
  <2>5. IdOfWorker'
    BY <2>1, <2>2, <2>3, ZenonT(60) DEF IdOfWorker, Unput, HasId
  <2>6. NoIdTwice'
    <3>1. ~(Unput(w)' /\ HasId(w)')
      BY <2>1 DEF Unput, HasId
    <3>2. \A v \in Worker : v # w => (Unput(v)' <=> Unput(v)) /\ (HasId(v)' <=> HasId(v))
      BY <2>1 DEF Unput, HasId
    <3>3. QED
      BY <2>1, <2>2, <3>1, <3>2 DEF NoIdTwice
  <2>7. DocIdsUnique' /\ DomainLeadsToDoc'
    BY <2>2 DEF DocIdsUnique, DomainLeadsToDoc
  <2>8. QED
    BY <2>4, <2>5, <2>6, <2>7
<1>4. ASSUME NEW w \in Worker, GetNextDocId(w) PROVE IdsCorrect'
  <2>1. /\ \A v \in Worker : v # w => pc'[v] = pc[v] /\ job'[v] = job[v]
        /\ pc[w] = "lock" /\ pc'[w] = "set_next"
        /\ \A v \in Worker : pc[v] # "set_next"
    BY <1>4 DEF GetNextDocId, Typed, TypeOK
  <2>2. job'[w].id = next_doc_id /\ job'[w].hash = job[w].hash
    BY <1>4, <2>1 DEF GetNextDocId, Typed, TypeOK, Job
  <2>3. UNCHANGED <<doc_id, domain, next_doc_id>>
    BY <1>4 DEF GetNextDocId, tableVars
  <2>4. /\ next_doc_id \in Nat
        /\ \A h \in Hash : doc_id[h] \in Nat /\ doc_id[h] < next_doc_id
        /\ \A v \in Worker : v # w /\ HasId(v) => job[v].id \in Nat /\ job[v].id < next_doc_id
    BY <2>1, DocAssumption DEF Typed, TypeOK, DocIdsUnique, IdOfWorker, HasId, Job
  <2>5. OneWorkerPerHash'
    BY <2>1, <2>2 DEF OneWorkerPerHash
  <2>6. IdOfWorker'
    BY <2>1, <2>2, <2>3 DEF IdOfWorker, Unput, HasId
  <2>7. NoIdTwice'
    BY <2>1, <2>2, <2>3, <2>4 DEF NoIdTwice, Unput, HasId
  <2>8. DocIdsUnique' /\ DomainLeadsToDoc'
    BY <2>3 DEF DocIdsUnique, DomainLeadsToDoc
  <2>9. QED
    BY <2>5, <2>6, <2>7, <2>8
<1>5. ASSUME NEW w \in Worker, SetNextDocId(w) PROVE IdsCorrect'
  <2>1. /\ \A v \in Worker : v # w => pc'[v] = pc[v]
        /\ pc[w] = "set_next" /\ pc'[w] = "put"
        /\ UNCHANGED <<job, doc_id, domain>>
    BY <1>5 DEF SetNextDocId, Typed, TypeOK
  <2>2. job[w].id = next_doc_id /\ next_doc_id' = next_doc_id + 1 /\ next_doc_id \in Nat
    BY <1>5, DocAssumption DEF SetNextDocId, IdOfWorker, Typed, TypeOK
  <2>3. job[w].new /\ job[w].puts = 0
    BY <2>1 DEF Typed, TypeOK, JobShape
  <2>4. \A v \in Worker : v # w => pc[v] # "set_next"
    BY <2>1 DEF NoIdTwice, IdOfWorker, Unput, HasId
  <2>5. OneWorkerPerHash'
    BY <2>1 DEF OneWorkerPerHash
  <2>6. IdOfWorker'
    <3>1. \A v \in Worker : job[v].id \in Nat
      BY DocAssumption DEF Typed, TypeOK, Job, NoJob
    <3>2. QED
      BY <2>1, <2>2, <2>3, <2>4, <3>1 DEF IdOfWorker, Unput, HasId
  <2>7. NoIdTwice'
    BY <2>1, <2>3 DEF NoIdTwice, Unput, HasId
  <2>8. DocIdsUnique' /\ DomainLeadsToDoc'
    BY <2>1, <2>2, DocAssumption DEF DocIdsUnique, DomainLeadsToDoc, Typed, TypeOK
  <2>9. QED
    BY <2>5, <2>6, <2>7, <2>8
<1>6. ASSUME NEW w \in Worker, Put(w) PROVE IdsCorrect'
  <2>1. UNCHANGED <<domain, next_doc_id>> /\ pc[w] = "put"
    BY <1>6 DEF Put
  <2>2. /\ job[w].id # 0 /\ job[w].id < next_doc_id /\ next_doc_id \in Nat
        /\ job[w].hash \in Hash /\ job[w].id \in Nat /\ job[w].puts \in Nat
    BY <2>1, DocAssumption DEF IdOfWorker, Typed, TypeOK, JobShape, Job
  <2>3. ~Unput(w)'
    BY <1>6, <2>2, PutId DEF Unput
  <2>4. Unput(w) => doc_id[job[w].hash] = 0 /\ \A h \in Hash : doc_id[h] # job[w].id
    BY <2>1 DEF IdOfWorker, NoIdTwice, HasId
  <2>5. OneWorkerPerHash'
    BY <1>6, <2>1, PutId DEF OneWorkerPerHash
  <2>6. \A v \in Worker : pc[v] # "idle" => job[v].hash \in Hash
    BY DEF Typed, TypeOK, Job
  <2>7. IdOfWorker'
    <3>1. pc'[w] \in {"put", "domain"} => job'[w].id < next_doc_id' /\ doc_id'[job'[w].hash] = job'[w].id
      BY <1>6, <2>1, <2>2, PutId DEF IdOfWorker, HasId
    <3>2. \A v \in Worker : v # w /\ pc[v] # "idle" => doc_id'[job[v].hash] = doc_id[job[v].hash]
      BY <1>6, <2>1, <2>6, PutId DEF OneWorkerPerHash
    <3>3. \A v \in Worker : v # w => (Unput(v)' <=> Unput(v)) /\ (HasId(v)' <=> HasId(v))
      BY <1>6, PutId DEF Unput, HasId
    <3>4. \A v \in Worker : Unput(v) \/ HasId(v) => pc[v] # "idle"
      BY DEF Unput, HasId
    <3>5. ASSUME NEW v \in Worker, v # w
          PROVE  /\ pc'[v] = "set_next" => job'[v].id = next_doc_id'
                 /\ pc'[v] \in {"put", "domain"} => job'[v].id < next_doc_id'
                 /\ Unput(v)' => doc_id'[job'[v].hash] = 0
                 /\ HasId(v)' /\ ~Unput(v)' => doc_id'[job'[v].hash] = job'[v].id
      BY <1>6, <2>1, <3>2, <3>3, <3>4, <3>5, PutId DEF IdOfWorker
    <3>6. pc'[w] # "set_next" /\ (HasId(w)' => pc'[w] \in {"put", "domain"})
      BY <1>6, PutId DEF HasId
    <3>7. QED
      BY <2>3, <3>1, <3>5, <3>6 DEF IdOfWorker
  <2>8. NoIdTwice'
    <3>1. \A v \in Worker : v # w => (Unput(v)' <=> Unput(v)) /\ (HasId(v)' <=> HasId(v))
      BY <1>6, PutId DEF Unput, HasId
    <3>2. HasId(w)
      BY <2>1 DEF HasId
    <3>3. ASSUME NEW v \in Worker, NEW h \in Hash, Unput(v)', HasId(v)'
          PROVE  doc_id'[h] # job'[v].id
      BY <1>6, <2>3, <3>1, <3>2, <3>3, PutId DEF NoIdTwice
    <3>4. ASSUME NEW v \in Worker, NEW x \in Worker, v # x,
                 Unput(v)', HasId(v)', Unput(x)', HasId(x)'
          PROVE  job'[v].id # job'[x].id
      BY <1>6, <2>3, <3>1, <3>4, PutId DEF NoIdTwice
    <3>5. QED
      BY <3>3, <3>4 DEF NoIdTwice
  <2>9. DocIdsUnique'
    BY <1>6, <2>1, <2>2, <2>4, PutId DEF DocIdsUnique
  <2>10. DomainLeadsToDoc'
    BY <1>6, <2>1, <2>4, PutId DEF DomainLeadsToDoc, Typed, TypeOK
  <2>11. QED
    BY <2>5, <2>7, <2>8, <2>9, <2>10
<1>7. ASSUME NEW w \in Worker, PutDomain(w) PROVE IdsCorrect'
  <2>1. /\ \A v \in Worker : v # w => pc'[v] = pc[v] /\ job'[v] = job[v]
        /\ pc[w] = "domain" /\ pc'[w] = "idle"
        /\ UNCHANGED <<doc_id, next_doc_id>>
        /\ domain' = domain \cup {<<job[w].id, job[w].hash>>}
    BY <1>7 DEF PutDomain, Typed, TypeOK
  <2>2. doc_id[job[w].hash] = job[w].id
    BY <2>1 DEF IdOfWorker, HasId, Unput
  <2>3. OneWorkerPerHash' /\ IdOfWorker' /\ NoIdTwice'
    BY <2>1 DEF OneWorkerPerHash, IdOfWorker, NoIdTwice, Unput, HasId
  <2>4. DocIdsUnique' /\ DomainLeadsToDoc'
    BY <2>1, <2>2 DEF DocIdsUnique, DomainLeadsToDoc
  <2>5. QED
    BY <2>3, <2>4
<1>8. CASE UNCHANGED vars
  BY <1>8 DEF vars, tableVars, OneWorkerPerHash, IdOfWorker, NoIdTwice, DocIdsUnique,
     DomainLeadsToDoc, Unput, HasId
<1>9. QED
  BY <1>1, <1>2, <1>3, <1>4, <1>5, <1>6, <1>7, <1>8 DEF Next, WorkerStep

LEMMA IdsAlways == Spec => []IdsCorrect
BY TypedAlways, IdsInit, IdsStep, PTL DEF Spec

\* No two documents share an id, and the next id is above all of them, after
\* any number of crashes (engine.cpp 184-192).
THEOREM DocIdsUniqueHolds == Spec => []DocIdsUnique
<1>1. IdsCorrect => DocIdsUnique
  BY DEF IdsCorrect
<1>2. QED
  BY <1>1, IdsAlways, PTL

\* An entry of the domain index is under the id of its document, so there is
\* at most one (engine.cpp 268-275).
THEOREM DomainLeadsToDocHolds == Spec => []DomainLeadsToDoc
<1>1. IdsCorrect => DomainLeadsToDoc
  BY DEF IdsCorrect
<1>2. QED
  BY <1>1, IdsAlways, PTL

\* Of the steps only a put touches an id, and only setNextDocId the next one.
LEMMA StableStep ==
    Typed /\ IdsCorrect /\ [Next]_vars =>
        /\ next_doc_id' >= next_doc_id
        /\ \A h \in Hash : doc_id[h] # 0 => doc_id'[h] = doc_id[h]
<1> SUFFICES ASSUME Typed, IdsCorrect, [Next]_vars
             PROVE  /\ next_doc_id' >= next_doc_id
                    /\ \A h \in Hash : doc_id[h] # 0 => doc_id'[h] = doc_id[h]
  OBVIOUS
<1>1. next_doc_id \in Nat
  BY DocAssumption DEF Typed, TypeOK
<1>2. ASSUME NEW w \in Worker, Put(w)
      PROVE  /\ next_doc_id' = next_doc_id
             /\ \A h \in Hash : doc_id[h] # 0 => doc_id'[h] = doc_id[h]
  <2>1. Unput(w) => doc_id[job[w].hash] = 0
    BY DEF IdsCorrect, IdOfWorker
  <2>2. QED
    BY <1>2, <2>1, PutId DEF Put
<1>3. ASSUME NEW w \in Worker, SetNextDocId(w)
      PROVE  next_doc_id' = next_doc_id + 1 /\ doc_id' = doc_id
  BY <1>3 DEF SetNextDocId, IdsCorrect, IdOfWorker
<1>4. CASE UNCHANGED tableVars
  BY <1>1, <1>4 DEF tableVars
<1>5. ASSUME NEW w \in Worker, PutDomain(w) PROVE UNCHANGED <<doc_id, next_doc_id>>
  BY <1>5 DEF PutDomain
<1>6. QED
  BY <1>1, <1>2, <1>3, <1>4, <1>5
     DEF Next, WorkerStep, Start, Stop, Fetched, Begin, GetNextDocId, vars

\* A document keeps its id for good, and ids are not handed out again
\* (engine.cpp 169-192).
THEOREM IdsAreStableHolds == Spec => IdsAreStable
<1>1. Typed /\ IdsCorrect /\ [Next]_vars =>
        [/\ next_doc_id' >= next_doc_id
         /\ \A h \in Hash : doc_id[h] # 0 => doc_id'[h] = doc_id[h]]_vars
  BY StableStep
<1>2. QED
  BY <1>1, TypedAlways, IdsAlways, PTL DEF Spec, IdsAreStable

(***************************************************************************)
(* Records.  The page of a worker is open, and what the worker has put     *)
(* nobody has overwritten.                                                 *)
(***************************************************************************)

PutSoFar ==
    \A w \in Worker :
      /\ pc[w] # "idle" => job[w].hash \in open
      /\ pc[w] = "put" => \A i \in 1 .. job[w].puts :
                            rec[job[w].hash][Families[i]] = job[w].page
      /\ pc[w] = "domain" => \A f \in Family : rec[job[w].hash][f] = job[w].page

RecordsCorrect == PutSoFar /\ RecordsOfOnePage

LEMMA RecordsInit == Init => RecordsCorrect
BY DEF Init, RecordsCorrect, PutSoFar, RecordsOfOnePage

LEMMA RecordsStep ==
    Typed /\ Typed' /\ OneWorkerPerHash /\ RecordsCorrect /\ [Next]_vars => RecordsCorrect'
<1> SUFFICES ASSUME Typed, Typed', OneWorkerPerHash, RecordsCorrect, [Next]_vars
             PROVE  RecordsCorrect'
  OBVIOUS
<1> USE DEF RecordsCorrect
<1>1. CASE Start
  BY <1>1 DEF Start, tableVars, PutSoFar, RecordsOfOnePage
<1>2. CASE Stop
  BY <1>2 DEF Stop, tableVars, PutSoFar, RecordsOfOnePage
<1>3. ASSUME NEW w \in Worker, NEW h \in Hash, NEW p \in Page, Fetched(w, h, p)
      PROVE  RecordsCorrect'
  <2>1. /\ \A v \in Worker : v # w => pc'[v] = pc[v] /\ job'[v] = job[v]
        /\ pc'[w] \in {"lock", "put"}
        /\ job'[w].hash = h /\ job'[w].puts = 0
        /\ rec' = rec /\ open' = open \cup {h}
    BY <1>3 DEF Fetched, Begin, tableVars, Typed, TypeOK
  <2>2. PutSoFar'
    BY <2>1 DEF PutSoFar
  <2>3. RecordsOfOnePage'
    BY <2>1 DEF RecordsOfOnePage
  <2>4. QED
    BY <2>2, <2>3
<1>4. ASSUME NEW w \in Worker, GetNextDocId(w) PROVE RecordsCorrect'
  <2>1. /\ \A v \in Worker : v # w => pc'[v] = pc[v] /\ job'[v] = job[v]
        /\ pc[w] = "lock" /\ pc'[w] = "set_next"
        /\ rec' = rec /\ open' = open
    BY <1>4 DEF GetNextDocId, tableVars, Typed, TypeOK
  <2>2. job'[w].hash = job[w].hash
    BY <1>4, <2>1 DEF GetNextDocId, Typed, TypeOK, Job
  <2>3. QED
    BY <2>1, <2>2 DEF PutSoFar, RecordsOfOnePage
<1>5. ASSUME NEW w \in Worker, SetNextDocId(w) PROVE RecordsCorrect'
  <2>1. /\ \A v \in Worker : v # w => pc'[v] = pc[v]
        /\ pc[w] = "set_next" /\ pc'[w] = "put" /\ job[w].puts = 0
        /\ UNCHANGED <<job, rec, open>>
    BY <1>5 DEF SetNextDocId, Typed, TypeOK, JobShape
  <2>2. QED
    BY <2>1 DEF PutSoFar, RecordsOfOnePage
<1>6. ASSUME NEW w \in Worker, Put(w) PROVE RecordsCorrect'
  <2> DEFINE h == job[w].hash
             p == job[w].page
             n == job[w].puts + 1
  <2>1. /\ pc[w] = "put" /\ h \in Hash /\ h \in open /\ n \in 1 .. 8
        /\ Families[n] \in Family
        /\ \A i \in 1 .. n - 1 : rec[h][Families[i]] = p
    BY <1>6, EightFamilies DEF Put, Typed, TypeOK, Job, PutSoFar
  <2>2. rec' = [rec EXCEPT ![h][Families[n]] = p]
    BY <1>6 DEF Put
  <2>3. /\ \A g \in Hash : g # h => rec'[g] = rec[g]
        /\ \A i \in 1 .. n : rec'[h][Families[i]] = p
    <3>1. rec[h] \in [Family -> Page \cup {NoPage}]
      BY <2>1 DEF Typed, TypeOK
    <3>2. \A f \in Family : rec'[h][f] = IF f = Families[n] THEN p ELSE rec[h][f]
      BY <2>1, <2>2, <3>1 DEF Typed, TypeOK
    <3>3. \A i \in 1 .. n : Families[i] \in Family
      BY <2>1, EightFamilies
    <3>4. \A g \in Hash : g # h => rec'[g] = rec[g]
      BY <2>2 DEF Typed, TypeOK
    <3>5. \A i \in 1 .. n : i = n \/ i \in 1 .. n - 1
      BY <2>1
    <3>6. \A i \in 1 .. n : rec'[h][Families[i]] = p
      BY <2>1, <3>2, <3>3, <3>5
    <3>7. QED
      BY <3>4, <3>6
  <2>4. n = 8 => \A f \in Family : rec'[h][f] = p
    BY <2>3, EightFamilies
  <2>5. /\ \A v \in Worker : v # w => pc'[v] = pc[v] /\ job'[v] = job[v]
        /\ \/ pc'[w] = "put" /\ n < 8
           \/ pc'[w] = "domain" /\ n = 8
           \/ pc'[w] = "idle" /\ n = 8
        /\ open' = IF pc'[w] = "idle" THEN open \ {h} ELSE open
    BY <1>6, PutCases, ZenonT(60) DEF Put, Typed, TypeOK
  <2>6. pc'[w] # "idle" => /\ job'[w].hash = h /\ job'[w].page = p
                          /\ job'[w].puts = n
    <3>1. CASE pc'[w] # "idle"
      <4>1. job' = [job EXCEPT ![w] = [job[w] EXCEPT !.puts = @ + 1]]
        BY <1>6, <3>1, PutJob DEF Typed
      <4>2. job[w] \in Job /\ job \in [Worker -> Job \cup {NoJob}]
        BY <2>1 DEF Typed, TypeOK
      <4>3. QED
        BY <4>1, <4>2 DEF Job
    <3>2. QED
      BY <3>1
  <2>7. \A v \in Worker : v # w /\ pc[v] # "idle" => job[v].hash # h /\ job[v].hash \in Hash
    BY <2>1 DEF OneWorkerPerHash, Typed, TypeOK, Job
  <2> HIDE DEF h, p, n
  <2>8. PutSoFar'
    BY <2>1, <2>3, <2>4, <2>5, <2>6, <2>7 DEF PutSoFar
  <2>9. RecordsOfOnePage'
    BY <2>1, <2>3, <2>4, <2>5 DEF RecordsOfOnePage
  <2>10. QED
    BY <2>8, <2>9
<1>7. ASSUME NEW w \in Worker, PutDomain(w) PROVE RecordsCorrect'
  <2>1. /\ \A v \in Worker : v # w => pc'[v] = pc[v] /\ job'[v] = job[v]
        /\ pc[w] = "domain" /\ pc'[w] = "idle"
        /\ rec' = rec /\ open' = open \ {job[w].hash}
    BY <1>7 DEF PutDomain, Typed, TypeOK
  <2>2. PutSoFar'
    BY <2>1 DEF PutSoFar, OneWorkerPerHash
  <2>3. RecordsOfOnePage'
    BY <2>1 DEF RecordsOfOnePage, PutSoFar
  <2>4. QED
    BY <2>2, <2>3
<1>8. CASE UNCHANGED vars
  BY <1>8 DEF vars, tableVars, PutSoFar, RecordsOfOnePage
<1>9. QED
  BY <1>1, <1>2, <1>3, <1>4, <1>5, <1>6, <1>7, <1>8 DEF Next, WorkerStep

\* A page that was processed to the end has eight records of that one fetch,
\* whatever was cut short before (engine.cpp 254-275).
THEOREM RecordsOfOnePageHolds == Spec => []RecordsOfOnePage
<1>1. IdsCorrect => OneWorkerPerHash
  BY DEF IdsCorrect
<1>2. RecordsCorrect => RecordsOfOnePage
  BY DEF RecordsCorrect
<1>3. QED
  BY <1>1, <1>2, TypedAlways, IdsAlways, RecordsInit, RecordsStep, PTL DEF Spec
=============================================================================
