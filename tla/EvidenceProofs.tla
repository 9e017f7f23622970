--------------------------- MODULE EvidenceProofs ---------------------------
(***************************************************************************)
(* What a reviewer may conclude from a saved chain, proved for every call, *)
(* every set of files and contents, and any number of changes in between.  *)
(*                                                                         *)
(* Observed ties what was read to what a path has held; Read- and          *)
(* HashedSoFar say what the stages passed have left behind; Taken says     *)
(* where each digest comes from; Listed is about the directory's listing.  *)
(***************************************************************************)
EXTENDS Evidence, TLAPS

Dir == "opa_policy_dir_hash"

Observed ==
  \A f \in Files :
    /\ seen[f] \subseteq held[f]
    /\ seen[f] = {} => held[f] = {}
    /\ held[f] # {} => disk[f] \in held[f]

ReadSoFar ==
  ~broken => \A n \in 1..stage : \A f \in ToRead(call, Stages[n]) :
    (n = stage /\ f \in left) \/ seen[f] # {}

HashedSoFar ==
  \A n \in 1..stage : Stages[n] # Dir => \A f \in ToHash(call, Stages[n]) :
    (n = stage /\ f \in left) \/ \E e \in evidence : e.field = Stages[n] /\ e.file = f

Taken ==
  /\ \A e \in evidence : \E n \in 7..stage :
       e.field = Stages[n] /\ ~(n = stage /\ e.file \in left)
  /\ \A e \in evidence : held[e.file] # {} => e.digest \in held[e.file]
  /\ \A d \in evidence : \A e \in evidence : d.field = e.field /\ d.file = e.file => d = e

Listed ==
  /\ Stages[stage] = Dir => left \subseteq call.rego
  /\ \A e \in evidence : e.field = Dir => e.file \in call.rego
  /\ stage > 8 => \A f \in call.rego : \A c \in Contents :
       held[f] = {c} =>
         (stage = 9 /\ f \in left) \/ \E e \in evidence : e.field = Dir /\ e.file = f
  /\ \A f \in call.rego : held[f] = {Absent} =>
       ~(stage = 9 /\ f \in left) /\ ~\E e \in evidence : e.field = Dir /\ e.file = f

Decided ==
  /\ stage < 7 => decision = "none" /\ evidence = {}
  /\ stage > 6 => decision # "none" /\ (broken => decision = "BLOCK")
  /\ probed # NoFile => probed \in left /\ stage \in 7..10
  /\ exit = "saved" => stage = 11

EInv == TypeOK /\ Observed /\ ReadSoFar /\ HashedSoFar /\ Taken /\ Listed /\ Decided

-----------------------------------------------------------------------------
(* Lemmas about the stages. *)

LEMMA StagesAre ==
  /\ Len(Stages) = 11
  /\ Stages[1] = "policy" /\ Stages[2] = "registries" /\ Stages[3] = "spectral"
  /\ Stages[4] = "opa" /\ Stages[5] = "targets" /\ Stages[6] = "decide"
  /\ Stages[7] = "spec_hash" /\ Stages[8] = "registry_hashes" /\ Stages[9] = Dir
  /\ Stages[10] = "ruleset_hash" /\ Stages[11] = "save"
PROOF BY DEF Stages, Dir

LEMMA StageKinds ==
  \A n \in 1..11 :
    /\ Stages[n] \in Reading <=> n <= 5
    /\ Stages[n] \in Hashing <=> n \in 7..10
    /\ Stages[n] \in Tools => n \in 3..4
    /\ Stages[n] = "decide" <=> n = 6
    /\ Stages[n] = "save" <=> n = 11
    /\ Stages[n] = Dir <=> n = 9
    /\ \A m \in 1..11 : Stages[m] = Stages[n] => m = n
PROOF
  <1> SUFFICES ASSUME NEW n \in 1..11
      PROVE /\ Stages[n] \in Reading <=> n <= 5
            /\ Stages[n] \in Hashing <=> n \in 7..10
            /\ Stages[n] \in Tools => n \in 3..4
            /\ Stages[n] = "decide" <=> n = 6
            /\ Stages[n] = "save" <=> n = 11
            /\ Stages[n] = Dir <=> n = 9
            /\ \A m \in 1..11 : Stages[m] = Stages[n] => m = n
    OBVIOUS
  <1>1. n = 1 \/ n = 2 \/ n = 3 \/ n = 4 \/ n = 5 \/ n = 6 \/ n = 7 \/ n = 8 \/ n = 9
          \/ n = 10 \/ n = 11
    OBVIOUS
  <1>2. \A m \in 1..11 : m = 1 \/ m = 2 \/ m = 3 \/ m = 4 \/ m = 5 \/ m = 6 \/ m = 7 \/ m = 8
          \/ m = 9 \/ m = 10 \/ m = 11
    OBVIOUS
  <1>3. \A m \in 1..11 : Stages[m] = Stages[n] => m = n
    BY <1>1, <1>2, StagesAre DEF Dir
  <1> QED BY <1>1, <1>3, StagesAre DEF Reading, Hashing, Tools, Dir

LEMMA WhatIsWhere ==
  ASSUME NEW c \in Calls, NEW s
  PROVE  /\ ToRead(c, s) \subseteq Files /\ ToHash(c, s) \subseteq Files
         /\ s \notin Reading => ToRead(c, s) = {}
         /\ s \notin Hashing => ToHash(c, s) = {}
         /\ s = Dir => ToHash(c, s) = Present(c.rego)
PROOF
  <1>1. /\ c.policy \in Files /\ c.spec \in Files /\ c.registries \subseteq Files
        /\ c.rego \subseteq Files /\ c.data \subseteq Files /\ c.ruleset \subseteq Files
        /\ c.targets \subseteq Files
    BY EvidenceAssumption
  <1> QED BY <1>1 DEF ToRead, ToHash, Reading, Tools, Hashing, Present, Dir

LEMMA HashesAreFixed ==
  ASSUME NEW s, s # Dir, call' = call
  PROVE  ToHash(call, s)' = ToHash(call, s)
PROOF BY DEF ToHash, Dir

-----------------------------------------------------------------------------
(* The invariant. *)

LEMMA InitEInv == Init => EInv
PROOF
  <1> SUFFICES ASSUME Init PROVE EInv
    OBVIOUS
  <1>1. call.policy \in Files /\ ToRead(call, "policy") = {call.policy}
    BY EvidenceAssumption DEF Init, ToRead
  <1>0. stage = 1 /\ 1 \in 1..Len(Stages) /\ Stages[stage] = "policy" /\ \A n \in 1..stage : n = 1
    BY StagesAre DEF Init
  <1>2. TypeOK
    <2>1. left \subseteq Files /\ stage \in 1..Len(Stages)
      BY <1>0, <1>1 DEF Init
    <2> QED BY <2>1 DEF Init, TypeOK
  <1>3. Observed /\ Decided
    BY DEF Init, Observed, Decided
  <1>4. ReadSoFar
    BY <1>0, <1>1 DEF Init, ReadSoFar
  <1>5. HashedSoFar
    <2>1. call \in Calls /\ "policy" \notin Hashing
      BY DEF Init, Hashing
    <2>2. ToHash(call, "policy") = {}
      BY <2>1, WhatIsWhere
    <2> QED BY <1>0, <2>2, StagesAre DEF HashedSoFar
  <1>6. Taken /\ Listed
    BY StagesAre DEF Init, Taken, Listed, Dir
  <1> QED BY <1>2, <1>3, <1>4, <1>5, <1>6 DEF EInv

LEMMA ReadKeeps ==
  ASSUME EInv, NEW f \in Files, Read(f)
  PROVE  EInv'
PROOF
  <1> USE DEF Read
  <1>1. stage \in 1..5 /\ stage \in 1..11 /\ evidence = {} /\ disk[f] \in States
    BY StageKinds, StagesAre DEF EInv, TypeOK, Decided
  <1>2. TypeOK'
    BY <1>1 DEF EInv, TypeOK
  <1>3. Observed'
    BY <1>1 DEF EInv, TypeOK, Observed
  <1>4. ReadSoFar'
    BY <1>1 DEF EInv, TypeOK, ReadSoFar
  <1>5. HashedSoFar'
    <2>1. \A n \in 1..stage : ToHash(call, Stages[n]) = {}
      BY <1>1, StageKinds, WhatIsWhere DEF EInv, TypeOK
    <2>2. \A n \in 1..stage : Stages[n] # Dir => ToHash(call, Stages[n])' = {}
      BY <2>1, <1>1, HashesAreFixed, StageKinds
    <2> QED BY <2>2 DEF HashedSoFar
  <1>6. Taken'
    BY <1>1 DEF Taken
  <1>7. Listed'
    BY <1>1, StageKinds DEF EInv, Listed
  <1>8. Decided'
    BY <1>1 DEF EInv, Decided
  <1> QED BY <1>2, <1>3, <1>4, <1>5, <1>6, <1>7, <1>8 DEF EInv

LEMMA ChangeKeeps ==
  ASSUME EInv, NEW f \in Files, Change(f)
  PROVE  EInv'
PROOF
  <1>1. PICK content \in States \ {disk[f]} :
          /\ disk' = [disk EXCEPT ![f] = content]
          /\ held' = [held EXCEPT ![f] = IF @ = {} THEN @ ELSE @ \cup {content}]
    BY DEF Change
  <1>2. UNCHANGED <<call, stage, left, seen, broken, decision, probed, evidence, exit>>
    BY DEF Change
  <1>3. /\ held \in [Files -> SUBSET States] /\ disk \in [Files -> States]
        /\ \A g \in Files : held[g] \subseteq held'[g] /\ (held'[g] = {} <=> held[g] = {})
        /\ \A g \in Files : g # f => held'[g] = held[g] /\ disk'[g] = disk[g]
        /\ held[f] # {} => disk[f] \in held'[f] /\ content \in held'[f]
        /\ disk'[f] = content
    BY <1>1 DEF EInv, TypeOK, Observed
  <1>4. TypeOK'
    BY <1>1, <1>2 DEF EInv, TypeOK
  <1>5. Observed'
    BY <1>2, <1>3 DEF EInv, Observed
  <1>6. ReadSoFar'
    BY <1>2 DEF EInv, ReadSoFar
  <1>7. HashedSoFar'
    BY <1>2, HashesAreFixed DEF EInv, HashedSoFar
  <1>8. Taken'
    <2>1. \A e \in evidence : e.file \in Files
      BY DEF EInv, TypeOK, Entries
    <2> QED BY <2>1, <1>2, <1>3 DEF EInv, Taken
  <1>9. Listed'
    <2>1. call.rego \subseteq Files
      BY EvidenceAssumption DEF EInv, TypeOK
    <2>2. \A g \in call.rego : \A c \in States : held'[g] = {c} => held[g] = {c}
      BY <1>1, <1>3, <2>1
    <2>3. \A c \in Contents : c \in States
      BY DEF States
    <2>4. Absent \in States
      BY DEF States
    <2> QED BY <2>2, <2>3, <2>4, <1>2 DEF EInv, Listed
  <1>10. Decided'
    BY <1>2 DEF EInv, Decided
  <1> QED BY <1>4, <1>5, <1>6, <1>7, <1>8, <1>9, <1>10 DEF EInv

\* Entering the next stage, with nothing left of this one unless a tool broke.
LEMMA EnterKeeps ==
  ASSUME EInv, Enter(stage + 1), stage < 11, broken' \in BOOLEAN, broken => broken',
         left = {} \/ (stage <= 5 /\ broken') \/ stage = 6,
         decision' \in {"none", "ALLOW", "WARN", "BLOCK"},
         stage = 6 => decision' # "none" /\ (broken' => decision' = "BLOCK"),
         stage # 6 => decision' = decision /\ (broken' = broken \/ stage < 6),
         UNCHANGED <<call, disk, seen, held, probed, evidence, exit>>, Running
  PROVE  EInv'
PROOF
  <1>0. stage \in 1..10 /\ stage + 1 \in 1..11 /\ call \in Calls
    BY StagesAre DEF EInv, TypeOK
  <1>1. stage' = stage + 1 /\ left' = ToRead(call, Stages[stage']) \cup ToHash(call, Stages[stage'])
    BY DEF Enter
  <1>2. left' \subseteq Files
    BY <1>0, <1>1, WhatIsWhere
  <1>3. stage = 6 => ToRead(call, Stages[stage]) = {} /\ ToHash(call, Stages[stage]) = {}
    BY <1>0, StageKinds, WhatIsWhere
  <1>4. TypeOK'
    BY <1>0, <1>1, <1>2, StagesAre DEF EInv, TypeOK
  <1>5. Observed'
    BY DEF EInv, Observed
  <1>6. ReadSoFar'
    <2> SUFFICES ASSUME ~broken', NEW n \in 1..stage', NEW f \in ToRead(call, Stages[n])
                 PROVE  (n = stage' /\ f \in left') \/ seen[f] # {}
      BY DEF ReadSoFar, ToRead
    <2>1. CASE n = stage'
      BY <2>1, <1>1
    <2>2. CASE n \in 1..stage
      BY <2>2, <1>0, <1>3 DEF EInv, ReadSoFar
    <2> QED BY <2>1, <2>2, <1>0, <1>1
  <1>7. HashedSoFar'
    <2> SUFFICES ASSUME NEW n \in 1..stage', Stages[n] # Dir, NEW f \in ToHash(call, Stages[n])
                 PROVE  (n = stage' /\ f \in left')
                          \/ \E e \in evidence : e.field = Stages[n] /\ e.file = f
      BY HashesAreFixed DEF HashedSoFar
    <2>1. CASE n = stage'
      BY <2>1, <1>1
    <2>2. CASE n \in 1..stage
      <3>1. n <= 5 => ToHash(call, Stages[n]) = {}
        BY <2>2, <1>0, StageKinds, WhatIsWhere
      <3> QED BY <3>1, <2>2, <1>0, <1>3 DEF EInv, HashedSoFar
    <2> QED BY <2>1, <2>2, <1>0, <1>1
  <1>8. Taken'
    <2>1. \A e \in evidence : \E n \in 7..stage' : e.field = Stages[n] /\ n # stage'
      BY <1>0, <1>1 DEF EInv, Taken
    <2> QED BY <2>1 DEF EInv, Taken
  <1>9. Listed'
    <2>1. stage' = 9 <=> Stages[stage'] = Dir
      BY <1>0, <1>1, StageKinds
    <2>2. stage' = 9 => left' = Present(call.rego) /\ left' \subseteq call.rego
      BY <1>0, <1>1, <2>1, StageKinds, WhatIsWhere DEF Present
    <2>3. \A g \in call.rego : g \in Files
      BY <1>0, EvidenceAssumption
    <2>4. stage' = 9 => \A g \in call.rego : g \in left' <=> disk[g] # Absent
      BY <2>2 DEF Present
    <2>5. \A g \in call.rego : \A c : held[g] = {c} => disk[g] = c
      BY <2>3 DEF EInv, Observed
    <2>6. stage' = 9 => ~\E e \in evidence : e.field = Dir
      BY <1>0, <1>1, StageKinds DEF EInv, Taken
    <2>7. stage' > 9 => stage > 8 /\ left = {}
      BY <1>0, <1>1
    <2> QED BY <1>0, <1>1, <2>1, <2>2, <2>3, <2>4, <2>5, <2>6, <2>7, EvidenceAssumption
        DEF EInv, Listed
  <1>10. Decided'
    BY <1>0, <1>1 DEF EInv, Decided, Running
  <1> QED BY <1>4, <1>5, <1>6, <1>7, <1>8, <1>9, <1>10 DEF EInv

\* A digest is taken of what the path holds now.
LEMMA RecordKeeps ==
  ASSUME EInv, NEW f \in Files, f \in left, Running, Stages[stage] \in Hashing,
         evidence' = evidence \cup {Entry(f, disk[f])},
         left' = left \ {f}, probed' = NoFile,
         UNCHANGED <<call, disk, stage, seen, held, broken, decision, exit>>
  PROVE  EInv'
PROOF
  <1>0. /\ stage \in 7..10 /\ stage \in 1..11 /\ exit = "running" /\ disk[f] \in States
        /\ call \in Calls
    BY StageKinds, StagesAre DEF EInv, TypeOK, Running
  <1> DEFINE new == Entry(f, disk[f])
  <1>1. new \in Entries /\ new.field = Stages[stage] /\ new.file = f /\ new.digest = disk[f]
    BY <1>0 DEF Entry, Entries
  <1>2. evidence' = evidence \cup {new}
    OBVIOUS
  <1>3. \A e \in evidence : ~(e.field = new.field /\ e.file = new.file)
    <2> SUFFICES ASSUME NEW e \in evidence, e.field = Stages[stage], e.file = f
                 PROVE  FALSE
      BY <1>1
    <2>1. PICK n \in 7..stage : e.field = Stages[n] /\ ~(n = stage /\ e.file \in left)
      BY DEF EInv, Taken
    <2>2. n \in 1..11 /\ Stages[n] = Stages[stage]
      BY <2>1, <1>0
    <2>3. n = stage
      BY <2>2, <1>0, StageKinds
    <2> QED BY <2>1, <2>3
  <1> HIDE DEF new
  <1>4. TypeOK'
    BY <1>1, <1>2 DEF EInv, TypeOK
  <1>5. Observed' /\ Decided'
    BY <1>0 DEF EInv, Observed, Decided
  <1>6. ReadSoFar'
    <2>1. ToRead(call, Stages[stage]) = {}
      BY <1>0, StageKinds, WhatIsWhere
    <2> QED BY <2>1, <1>0 DEF EInv, ReadSoFar
  <1>7. HashedSoFar'
    <2> SUFFICES ASSUME NEW n \in 1..stage, Stages[n] # Dir, NEW g \in ToHash(call, Stages[n])
                 PROVE  (n = stage /\ g \in left')
                          \/ \E e \in evidence' : e.field = Stages[n] /\ e.file = g
      BY HashesAreFixed DEF HashedSoFar
    <2>1. CASE n = stage /\ g = f
      BY <2>1, <1>1, <1>2
    <2>2. CASE ~(n = stage /\ g = f)
      <3>1. (n = stage /\ g \in left) \/ \E e \in evidence : e.field = Stages[n] /\ e.file = g
        BY DEF EInv, HashedSoFar
      <3> QED BY <2>2, <3>1, <1>2
    <2> QED BY <2>1, <2>2
  <1>8. Taken'
    <2>1. \A e \in evidence' : \E n \in 7..stage :
            e.field = Stages[n] /\ ~(n = stage /\ e.file \in left')
      BY <1>0, <1>1, <1>2 DEF EInv, Taken
    <2>2. \A e \in evidence' : held[e.file] # {} => e.digest \in held[e.file]
      BY <1>1, <1>2 DEF EInv, Taken, Observed
    <2>3. \A d \in evidence' : \A e \in evidence' :
            d.field = e.field /\ d.file = e.file => d = e
      BY <1>2, <1>3 DEF EInv, Taken
    <2> QED BY <2>1, <2>2, <2>3 DEF Taken
  <1>9. Listed'
    <2>1. Stages[stage] = Dir <=> stage = 9
      BY <1>0, StageKinds
    <2>2. stage # 9 => new.field # Dir
      BY <1>1, <2>1
    <2>3. call.rego \subseteq Files
      BY <1>0, EvidenceAssumption
    <2>4. stage = 9 => f \in call.rego /\ held[f] # {Absent}
      BY <2>1 DEF EInv, Listed
    <2>5. \A e \in evidence' : e.field = Dir => e.file \in call.rego
      BY <1>1, <1>2, <2>2, <2>4 DEF EInv, Listed
    <2>6. stage > 8 => \A g \in call.rego : \A c \in Contents :
            held[g] = {c} =>
              (stage = 9 /\ g \in left') \/ \E e \in evidence' : e.field = Dir /\ e.file = g
      <3> SUFFICES ASSUME stage > 8, NEW g \in call.rego, NEW c \in Contents, held[g] = {c}
                   PROVE  (stage = 9 /\ g \in left')
                            \/ \E e \in evidence' : e.field = Dir /\ e.file = g
        OBVIOUS
      <3>1. (stage = 9 /\ g \in left) \/ \E e \in evidence : e.field = Dir /\ e.file = g
        BY DEF EInv, Listed
      <3> QED BY <3>1, <1>1, <1>2, <2>1
    <2>7. \A g \in call.rego : held[g] = {Absent} =>
            ~(stage = 9 /\ g \in left') /\ ~\E e \in evidence' : e.field = Dir /\ e.file = g
      BY <1>1, <1>2, <2>1, <2>2, <2>4 DEF EInv, Listed
    <2>8. Stages[stage] = Dir => left' \subseteq call.rego
      BY DEF EInv, Listed
    <2> QED BY <2>5, <2>6, <2>7, <2>8 DEF Listed
  <1> QED BY <1>4, <1>5, <1>6, <1>7, <1>8, <1>9 DEF EInv

LEMMA ProbeKeeps ==
  ASSUME EInv, NEW f \in Files, Probe(f)
  PROVE  EInv'
PROOF
  <1>0. /\ stage \in 7..10 /\ stage \in 1..11 /\ Stages[stage] \in Hashing /\ f \in left
        /\ exit = "running" /\ disk[f] \in States /\ call \in Calls
    BY StageKinds, StagesAre DEF EInv, TypeOK, Probe, Running
  <1>1. UNCHANGED <<call, disk, stage, seen, held, broken, decision, exit>>
    BY DEF Probe
  <1>2. CASE disk[f] # Absent
    <2>1. probed' = f /\ UNCHANGED <<evidence, left>>
      BY <1>2 DEF Probe
    <2>2. TypeOK' /\ Observed' /\ ReadSoFar' /\ Taken' /\ Listed'
      BY <1>1, <2>1 DEF EInv, TypeOK, Observed, ReadSoFar, Taken, Listed
    <2>3. HashedSoFar'
      BY <1>1, <2>1, HashesAreFixed DEF EInv, HashedSoFar
    <2>4. Decided'
      BY <1>0, <1>1, <2>1 DEF EInv, Decided
    <2> QED BY <2>2, <2>3, <2>4 DEF EInv
  <1>3. CASE disk[f] = Absent
    <2>1. Running /\ Stages[stage] \in Hashing
      BY DEF Probe
    <2>2. evidence' = evidence \cup {Entry(f, disk[f])} /\ left' = left \ {f} /\ probed' = NoFile
      BY <1>3 DEF Probe
    <2> QED BY <1>0, <1>1, <2>1, <2>2, RecordKeeps
  <1> QED BY <1>2, <1>3

LEMMA StepKeeps == EInv /\ [Next]_vars => EInv'
PROOF
  <1> SUFFICES ASSUME EInv, [Next]_vars PROVE EInv'
    OBVIOUS
  <1>0. stage \in 1..11
    BY StagesAre DEF EInv, TypeOK
  <1>1. ASSUME NEW f \in Files, Read(f) PROVE EInv'
    BY <1>1, ReadKeeps
  <1>2. ASSUME NEW f \in Files, Change(f) PROVE EInv'
    BY <1>2, ChangeKeeps
  <1>3. ASSUME NEW f \in Files, Probe(f) PROVE EInv'
    BY <1>3, ProbeKeeps
  <1>4. ASSUME NEW f \in Files, Hash(f) PROVE EInv'
    <2>1. probed # NoFile /\ f \in left /\ stage \in 7..10
      BY <1>4, EvidenceAssumption DEF Hash, EInv, Decided
    <2>2. Stages[stage] \in Hashing
      BY <2>1, <1>0, StageKinds
    <2> QED BY <1>4, <2>1, <2>2, RecordKeeps DEF Hash
  <1>5. CASE ToolBreaks
    <2>1. stage < 5 /\ stage # 6
      BY <1>0, <1>5, StageKinds DEF ToolBreaks
    <2>2. decision \in {"none", "ALLOW", "WARN", "BLOCK"}
      BY DEF EInv, TypeOK
    <2>3. Running /\ broken' = TRUE /\ Enter(stage + 1)
      BY <1>5 DEF ToolBreaks
    <2>4. UNCHANGED <<call, disk, seen, held, decision, probed, evidence, exit>>
      BY <1>5 DEF ToolBreaks
    <2>5. broken' \in BOOLEAN /\ (broken => broken') /\ stage <= 5 /\ stage < 11
      BY <1>0, <2>1, <2>3
    <2>6. stage # 6 => decision' = decision /\ (broken' = broken \/ stage < 6)
      BY <1>0, <2>1, <2>4
    <2>7. decision' \in {"none", "ALLOW", "WARN", "BLOCK"}
      BY <2>2, <2>4
    <2> QED BY <2>1, <2>3, <2>4, <2>5, <2>6, <2>7, EnterKeeps
  <1>6. CASE Advance
    <2>1. stage # 6 /\ stage < 11
      BY <1>0, <1>6, StageKinds DEF Advance
    <2> QED BY <1>0, <1>6, <2>1, EnterKeeps DEF Advance, EInv, TypeOK
  <1>7. CASE Decide
    <2>1. stage = 6
      BY <1>0, <1>7, StageKinds DEF Decide, At
    <2> QED BY <1>0, <1>7, <2>1, EnterKeeps DEF Decide, At, EInv, TypeOK
  <1>8. CASE Save \/ Stop
    <2>1. /\ UNCHANGED <<call, disk, stage, left, seen, held, broken, decision, probed, evidence>>
          /\ exit' \in {"saved", "stopped"}
          /\ exit' = "saved" => stage = 11
      BY <1>0, <1>8, StageKinds DEF Save, Stop, At
    <2>2. /\ TypeOK' /\ Observed'
          /\ ReadSoFar' /\ Taken'
      BY <2>1 DEF EInv, TypeOK, Observed, ReadSoFar, Taken
    <2>4. Listed' /\ Decided'
      BY <2>1 DEF EInv, Listed, Decided
    <2>3. HashedSoFar'
      BY <2>1, HashesAreFixed DEF EInv, HashedSoFar
    <2> QED BY <2>2, <2>3, <2>4 DEF EInv
  <1>9. CASE UNCHANGED vars
    <2>0. UNCHANGED <<call, disk, stage, left, seen, held, broken, decision, probed, evidence, exit>>
      BY <1>9 DEF vars
    <2>1. TypeOK' /\ Observed' /\ ReadSoFar'
      BY <2>0 DEF EInv, TypeOK, Observed, ReadSoFar
    <2>3. Taken' /\ Listed' /\ Decided'
      BY <2>0 DEF EInv, Taken, Listed, Decided
    <2>2. HashedSoFar'
      BY <2>0, HashesAreFixed DEF EInv, HashedSoFar
    <2> QED BY <2>1, <2>2, <2>3 DEF EInv
  <1> QED BY <1>1, <1>2, <1>3, <1>4, <1>5, <1>6, <1>7, <1>8, <1>9 DEF Next, GateStep

THEOREM Invariant == Spec => []EInv
PROOF BY InitEInv, StepKeeps, PTL DEF Spec

-----------------------------------------------------------------------------
(* What it gives. *)

\* Every variable keeps its type: no run leaves the eleven stages or records
\* anything but digests of files.
THEOREM TypeCorrect == Spec => []TypeOK
PROOF
  <1>1. EInv => TypeOK
    BY DEF EInv
  <1> QED BY <1>1, Invariant, PTL

\* In a saved run that releases, everything was read and everything hashed.
LEMMA ReleasedIsWhole ==
  ASSUME EInv, exit = "saved", decision # "BLOCK"
  PROVE  /\ stage = 11 /\ ~broken /\ call \in Calls
         /\ \A n \in 1..11 : \A f \in ToRead(call, Stages[n]) : seen[f] # {}
         /\ \A n \in 1..11 : Stages[n] # Dir => \A f \in ToHash(call, Stages[n]) :
              \E e \in evidence : e.field = Stages[n] /\ e.file = f
PROOF
  <1>1. stage = 11 /\ ~broken /\ call \in Calls
    BY DEF EInv, Decided, TypeOK
  <1>2. ToRead(call, Stages[11]) = {} /\ ToHash(call, Stages[11]) = {}
    BY <1>1, StageKinds, WhatIsWhere
  <1>3. \A n \in 1..11 : \A f \in ToRead(call, Stages[n]) : seen[f] # {}
    BY <1>1, <1>2 DEF EInv, ReadSoFar
  <1>4. \A n \in 1..11 : Stages[n] # Dir => \A f \in ToHash(call, Stages[n]) :
          \E e \in evidence : e.field = Stages[n] /\ e.file = f
    BY <1>1, <1>2 DEF EInv, HashedSoFar
  <1> QED BY <1>1, <1>3, <1>4

\* A saved chain that releases names what was read, for every call and
\* whatever changes the files: see ReleaseNamesWhatWasRead.
THEOREM EvidenceNamesInputs == Spec => []ReleaseNamesWhatWasRead
PROOF
  <1>1. EInv => ReleaseNamesWhatWasRead
    <2> SUFFICES ASSUME EInv, exit = "saved", decision # "BLOCK",
                        NEW field \in Hashing \ {Dir}, NEW f \in ToHash(call, field)
                 PROVE  \E content \in held[f] :
                          Digests(field, f) = {content} /\ (Quiet(f) => seen[f] = {content})
      BY DEF ReleaseNamesWhatWasRead, Dir
    <2>1. PICK n \in 7..10 : field = Stages[n]
      BY StagesAre DEF Hashing, Dir
    <2>2. PICK e \in evidence : e.field = field /\ e.file = f
      BY <2>1, ReleasedIsWhole
    <2>3. f \in Files /\ call \in Calls
      BY ReleasedIsWhole, WhatIsWhere
    <2>4. seen[f] # {}
      <3>1. \E m \in 1..11 : f \in ToRead(call, Stages[m])
        BY StagesAre DEF ToRead, ToHash, Hashing, Dir
      <3> QED BY <3>1, ReleasedIsWhole
    <2>5. e.digest \in held[f] /\ seen[f] \subseteq held[f]
      BY <2>2, <2>3, <2>4 DEF EInv, Taken, Observed
    <2>6. Digests(field, f) = {e.digest}
      BY <2>2 DEF Digests, EInv, Taken
    <2>7. Quiet(f) => seen[f] = {e.digest}
      BY <2>4, <2>5 DEF Quiet
    <2> QED BY <2>5, <2>6, <2>7
  <1> QED BY <1>1, Invariant, PTL

\* The digest of the policy directory is made of the Rego files evaluated:
\* see PolicyHashNamesRego.
THEOREM PolicyDigestIsExact == Spec => []PolicyHashNamesRego
PROOF
  <1>1. EInv => PolicyHashNamesRego
    <2> SUFFICES ASSUME EInv, exit = "saved", decision # "BLOCK",
                        \A g \in call.rego : Quiet(g), NEW f \in Files, NEW content \in States
                 PROVE  [field |-> Dir, file |-> f, digest |-> content] \in evidence
                          <=> f \in call.rego /\ content # Absent /\ content \in seen[f]
      BY DEF PolicyHashNamesRego, Dir
    <2> DEFINE e == [field |-> Dir, file |-> f, digest |-> content]
    <2>0. e.field = Dir /\ e.file = f /\ e.digest = content
      OBVIOUS
    <2>1. \A g \in call.rego : seen[g] # {}
      <3>1. call.rego \subseteq ToRead(call, Stages[4])
        BY StagesAre DEF ToRead
      <3> QED BY <3>1, ReleasedIsWhole
    <2>2. stage = 11
      BY ReleasedIsWhole
    <2>3. ASSUME e \in evidence PROVE f \in call.rego /\ content # Absent /\ content \in seen[f]
      <3>1. f \in call.rego
        BY <2>0, <2>3 DEF EInv, Listed
      <3>2. content \in held[f] /\ seen[f] \subseteq held[f] /\ seen[f] # {}
        BY <2>0, <2>1, <2>3, <3>1 DEF EInv, Taken, Observed
      <3>3. PICK c \in States : held[f] = {c}
        BY <3>1 DEF Quiet
      <3>4. held[f] # {Absent}
        BY <2>0, <2>3, <3>1 DEF EInv, Listed
      <3> QED BY <3>1, <3>2, <3>3, <3>4
    <2>4. ASSUME f \in call.rego, content # Absent, content \in seen[f] PROVE e \in evidence
      <3>1. PICK c \in States : held[f] = {c}
        BY <2>4 DEF Quiet
      <3>2. c = content /\ content \in Contents
        BY <2>4, <3>1 DEF EInv, Observed, States
      <3>3. PICK x \in evidence : x.field = Dir /\ x.file = f
        BY <2>2, <2>4, <3>1, <3>2 DEF EInv, Listed
      <3>4. x.digest \in held[f] /\ x \in Entries
        BY <3>1, <3>3 DEF EInv, Taken, TypeOK
      <3>5. x = e
        BY <3>1, <3>2, <3>3, <3>4 DEF Entries
      <3> QED BY <3>3, <3>5
    <2> QED BY <2>3, <2>4
  <1> QED BY <1>1, Invariant, PTL

=============================================================================
