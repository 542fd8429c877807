--------------------- MODULE ExecutableReplacementProofs ---------------------
(* What ExecutableReplacement promises for every number of updates, outside *)
(* writers and faults: its types, that an undecided exchange can be taken   *)
(* back, that a restoration restored, and that no file is lost.             *)
EXTENDS ExecutableReplacement, TLAPS

(* The labels of an update that has the lease, of one that has a copy of    *)
(* the executable aside, and of one that has not decided yet.               *)
Deciding  == {"stage", "check", "publish", "classify", "classifyUnconfirmed",
              "takeBack", "swapBack", "verify", "verifyUnconfirmed", "fillEmpty",
              "dropCandidate", "dropBackup", "pending"}
Finishing == {"dropDisplaced", "dropCopy", "spawn"}
Past      == Deciding \cup Finishing
Working   == Past \cup {"prepare"}
Removing  == {"backup", "displaced", "journal"}
Cleaning  == Removing \cup {"revalidate"}
Labels    == Working \cup {"idle", "queued", "reported", "gone"}
Reasons   == {"none", "refused", "foreign", "unconfirmed", "rollback"}

Open(n) == completion[n] # "committed"

(* Kinds of the variables TypeOK leaves open.                               *)
Kinds ==
  /\ pc \in [Attempt -> Labels] /\ why \in [Attempt -> Reasons]
  /\ want \in [Attempt -> Files \cup {Absent}]
  /\ clean \in [Cleaners -> [at : Cleaning \cup {"idle", "ready"}, of : Cleaners]]

(* Only who has the lease works.                                            *)
Locked ==
  /\ \A n \in Attempt : pc[n] \in Working => lease = Updater(n)
  /\ \A c \in Cleaners : clean[c].at \in Cleaning => lease = Cleaner(c)

(* A cleanup is of a committed update.                                      *)
Cleanups ==
  /\ \A n \in Attempt : disk[Journal] = Record(n) => ~ Open(n)
  /\ \A c \in Cleaners : clean[c].at \in Removing => clean[c].of \in Attempt /\ ~ Open(clean[c].of)

(* Copies are backups; and the candidate of an open update is public or     *)
(* staged only while its backup is there, or it was put out of the way.     *)
Copies == \A x \in Names, n \in Attempt : disk[x] = Copy(n) => x = Backup
Traced ==
  \A x \in Names, n \in Attempt : disk[x] = Candidate(n) /\ Open(n) =>
    \/ x = Failed(n)
    \/ x = Staged /\ disk[Backup] = Absent
    \/ x \in {Public, Staged} /\ disk[Backup] = Copy(n)

Recoverable ==
  /\ \A n \in Attempt : disk[Public] = Candidate(n) /\ Open(n) => disk[Displaced(n)] # Absent
  /\ disk[Public] = Absent =>
       /\ platform = "windows"
       /\ \E n \in Attempt : Open(n) /\ disk[Aside(n)] # Absent /\ disk[Backup] = Copy(n)

(* The names of an update: nothing of it exists yet; its candidate is       *)
(* staged; it is out and what it displaced is aside; or it is staged and    *)
(* the displaced file is aside.                                             *)
Unborn(n) == /\ disk[Aside(n)] = Absent /\ disk[Failed(n)] = Absent
             /\ ~ OnDisk(Candidate(n))
Ready(n) == /\ disk[Staged] = Candidate(n) /\ disk[Public] \notin {Absent, Candidate(n)}
            /\ disk[Aside(n)] = Absent /\ disk[Failed(n)] = Absent
Out(n) == /\ disk[Displaced(n)] \notin {Absent, Candidate(n)} /\ disk[Public] # Absent
          /\ disk[Staged] # Candidate(n) /\ disk[Failed(n)] = Absent
Gap(n) == /\ platform = "windows" /\ disk[Public] # Candidate(n)
          /\ disk[Aside(n)] \notin {Absent, Candidate(n)} /\ disk[Failed(n)] = Absent
Back(n) == disk[Public] = want[n] \/ want[n] \in overwritten

Phase(n) ==
  /\ pc[n] \in {"idle", "queued", "prepare"} => Unborn(n) /\ bound[n] = Absent
  /\ pc[n] \in {"idle", "queued", "prepare"} \cup Deciding => Open(n)
  /\ pc[n] \in Deciding \cup {"dropDisplaced"} => disk[Backup] = Copy(n)
  /\ pc[n] \in Deciding => bound[n] # Absent
  /\ pc[n] = "stage" => Unborn(n) /\ disk[Staged] = Absent /\ disk[Public] # Absent
  /\ pc[n] \in {"check", "publish"} => Ready(n)
  /\ pc[n] \in {"classify", "classifyUnconfirmed", "takeBack"} => Ready(n) \/ Out(n) \/ Gap(n)
  /\ pc[n] \in {"swapBack", "pending"} => Out(n)
  /\ pc[n] = "swapBack" => disk[Displaced(n)] = want[n]
  /\ pc[n] \in {"verify", "verifyUnconfirmed", "fillEmpty"} => want[n] \notin {Absent, Candidate(n)}
  /\ pc[n] = "fillEmpty" => disk[Aside(n)] = want[n] /\ disk[Public] # Candidate(n)
  /\ pc[n] \in {"dropCandidate", "dropBackup"} =>
       disk[Public] \notin {Absent, Candidate(n)} /\ (why[n] # "refused" => want[n] # Absent /\ Back(n))
  /\ pc[n] \in Finishing => ~ Open(n)
  /\ pc[n] \notin {"reported", "gone"} => outcome[n] = "none"

Phases == \A n \in Attempt : Phase(n)

(* What an update put back is public until another writer replaces it or    *)
(* another update binds it.                                                 *)
Restored(n) ==
  /\ ~ OnDisk(Copy(n)) /\ ~ OnDisk(Candidate(n)) /\ want[n] # Absent
  /\ \/ want[n] \in overwritten
     \/ \E m \in Attempt \ {n} : bound[m] = want[n]
     \/ disk[Public] = want[n] /\ \A m \in Attempt : pc[m] \notin Past

Settled == \A n \in Attempt : outcome[n] = "restored" => Restored(n)

IInv == /\ TypeOK /\ Kinds /\ Locked /\ Cleanups /\ Copies /\ Traced /\ Recoverable
        /\ Phases /\ Settled

(* A step of an update that has the lease changes only what is its own.     *)
Decided == {"none", "rolledBack", "committed"}
Reports == {"none", "refused", "restored", "preserved", "committed"}

Updates ==
  /\ pc \in [Attempt -> Labels] /\ why \in [Attempt -> Reasons]
  /\ want \in [Attempt -> Files \cup {Absent}] /\ bound \in [Attempt -> Files \cup {Absent}]
  /\ completion \in [Attempt -> Decided] /\ outcome \in [Attempt -> Reports]

Others(n) ==
  \A m \in Attempt \ {n} :
    /\ pc'[m] = pc[m] /\ why'[m] = why[m] /\ want'[m] = want[m] /\ bound'[m] = bound[m]
    /\ completion'[m] = completion[m] /\ outcome'[m] = outcome[m]

Work(n) ==
  /\ pc[n] \in Working /\ pc'[n] \in Past \cup {"reported"}
  /\ Updates' /\ Others(n)
  /\ platform' = platform /\ overwritten' = overwritten /\ lease' = lease
  /\ faults' \in 0 .. MaxFaults
  /\ \/ clean' = clean
     \/ clean' = [clean EXCEPT ![n] = [at |-> "ready", of |-> n]]

(* The shape of such a step.                                                *)
Turn(n) ==
  /\ pc[n] \in Working
  /\ \E l \in Past \cup {"reported"} : Goto(n, l)
  /\ outcome' = outcome \/ \E o \in Reports : outcome' = [outcome EXCEPT ![n] = o]
  /\ why' = why \/ \E r \in Reasons : Because(n, r)
  /\ want' = want \/ \E f \in Files \cup {Absent} : want' = [want EXCEPT ![n] = f]
  /\ bound' = bound \/ \E f \in Files \cup {Absent} : bound' = [bound EXCEPT ![n] = f]
  /\ completion' = completion \/ \E d \in Decided : completion' = [completion EXCEPT ![n] = d]
  /\ platform' = platform /\ overwritten' = overwritten /\ lease' = lease
  /\ faults' = faults \/ Fault
  /\ \/ clean' = clean
     \/ clean' = [clean EXCEPT ![n] = [at |-> "ready", of |-> n]]

(* On the disk such a step touches the shared names and its own, and makes  *)
(* no file of another update.                                               *)
OnlyOwn(n) ==
  /\ \A m \in Attempt \ {n} : disk'[Aside(m)] = disk[Aside(m)] /\ disk'[Failed(m)] = disk[Failed(m)]
  /\ \A x \in Names : \/ disk'[x] \in {Absent, Torn, Copy(n), Candidate(n), Record(n)}
                        \/ \E y \in Names : disk'[x] = disk[y]
----------------------------------------------------------------------------
(* Names, files and holders are who they are.                               *)

LEMMA Places ==
  /\ Public \in Names /\ Backup \in Names /\ Staged \in Names /\ Journal \in Names
  /\ Public # Backup /\ Public # Staged /\ Public # Journal
  /\ Backup # Staged /\ Backup # Journal /\ Staged # Journal
BY DEF Names, Public, Backup, Staged, Journal

LEMMA OwnPlaces ==
  ASSUME NEW n \in Attempt
  PROVE  /\ Aside(n) \in Names /\ Failed(n) \in Names
         /\ Aside(n) \notin {Public, Backup, Staged, Journal}
         /\ Failed(n) \notin {Public, Backup, Staged, Journal}
         /\ Aside(n) # Failed(n)
         /\ \A m \in Attempt : Aside(m) # Failed(n) /\ Aside(n) # Failed(m)
         /\ \A m \in Attempt \ {n} : Aside(m) # Aside(n) /\ Failed(m) # Failed(n)
<1>1. Aside(n) \in Names /\ Failed(n) \in Names
  BY DEF Names
<1>2. /\ Aside(n) \notin {Public, Backup, Staged, Journal}
      /\ Failed(n) \notin {Public, Backup, Staged, Journal}
  BY DEF Public, Backup, Staged, Journal, Aside, Failed
<1>3. /\ Aside(n) # Failed(n)
      /\ \A m \in Attempt : Aside(m) # Failed(n) /\ Aside(n) # Failed(m)
      /\ \A m \in Attempt \ {n} : Aside(m) # Aside(n) /\ Failed(m) # Failed(n)
  BY DEF Aside, Failed
<1> QED
  BY <1>1, <1>2, <1>3

LEMMA Tokens ==
  ASSUME NEW n \in Attempt
  PROVE  /\ Copy(n) \in Files /\ Candidate(n) \in Files /\ Record(n) \in Files
         /\ Copy(n) # Absent /\ Candidate(n) # Absent /\ Record(n) # Absent
         /\ \A m \in Attempt : /\ Copy(m) # Candidate(n) /\ Copy(m) # Record(n)
                               /\ Candidate(m) # Record(n) /\ Candidate(m) # Copy(n)
                               /\ Record(m) # Copy(n) /\ Record(m) # Candidate(n)
         /\ \A m \in Attempt \ {n} : /\ Copy(m) # Copy(n) /\ Candidate(m) # Candidate(n)
                                     /\ Record(m) # Record(n)
         /\ \A k : /\ ByOther(k) # Copy(n) /\ ByOther(k) # Candidate(n) /\ ByOther(k) # Record(n)
         /\ Torn \notin {Absent, Copy(n), Candidate(n), Record(n)}
<1>1. Copy(n) \in Files /\ Candidate(n) \in Files /\ Record(n) \in Files
  BY DEF Files
<1>2. Copy(n) # Absent /\ Candidate(n) # Absent /\ Record(n) # Absent
  BY DEF Copy, Candidate, Record, Absent
<1>3. \A m \in Attempt : /\ Copy(m) # Candidate(n) /\ Copy(m) # Record(n)
                         /\ Candidate(m) # Record(n) /\ Candidate(m) # Copy(n)
                         /\ Record(m) # Copy(n) /\ Record(m) # Candidate(n)
  BY DEF Copy, Candidate, Record
<1>4. \A m \in Attempt \ {n} : /\ Copy(m) # Copy(n) /\ Candidate(m) # Candidate(n)
                               /\ Record(m) # Record(n)
  BY DEF Copy, Candidate, Record
<1>5. \A k : /\ ByOther(k) # Copy(n) /\ ByOther(k) # Candidate(n) /\ ByOther(k) # Record(n)
  BY DEF Copy, Candidate, Record, ByOther
<1>6. Torn \notin {Absent, Copy(n), Candidate(n), Record(n)}
  BY DEF Torn, Absent, Copy, Candidate, Record
<1> QED
  BY <1>1, <1>2, <1>3, <1>4, <1>5, <1>6

LEMMA Outsiders ==
  ASSUME NEW k \in Foreign
  PROVE  ByOther(k) \in Files /\ ByOther(k) # Absent
<1>1. ByOther(k) \in Files
  BY DEF Files
<1>2. ByOther(k) # Absent
  BY DEF ByOther, Absent
<1> QED
  BY <1>1, <1>2

LEMMA NoFile == Absent \notin Files
<1>1. Absent # Installed /\ Absent # Torn
  BY DEF Absent, Installed, Torn
<1>2. \A n \in Attempt : Absent # Copy(n) /\ Absent # Candidate(n) /\ Absent # Record(n)
  BY Tokens
<1>3. \A k \in Foreign : Absent # ByOther(k)
  BY Outsiders
<1> QED
  BY <1>1, <1>2, <1>3 DEF Files

LEMMA Holders ==
  /\ \A n : Updater(n) # Nobody /\ Cleaner(n) # Nobody
  /\ \A n, m : Updater(n) # Cleaner(m)
  /\ \A n, m : Updater(n) = Updater(m) => n = m
  /\ \A n, m : Cleaner(n) = Cleaner(m) => n = m
BY DEF Updater, Cleaner, Nobody

LEMMA Numbers == MaxFaults \in Nat /\ Attempt \subseteq Cleaners /\ 0 \in Cleaners /\ 0 \notin Attempt
BY AttemptAssumption, FaultAssumption DEF Cleaners

(* A function changed at one place.                                         *)
LEMMA Change ==
  ASSUME NEW D, NEW T, NEW f \in [D -> T], NEW g, NEW a \in D, NEW v \in T,
         g = [f EXCEPT ![a] = v]
  PROVE  /\ g \in [D -> T] /\ g[a] = v
         /\ \A b \in D \ {a} : g[b] = f[b]
OBVIOUS

(* What the moves of names do to the disk.                                  *)
DiskType == disk \in [Names -> Files \cup {Absent}]

LEMMA PutDoes ==
  ASSUME DiskType, NEW x \in Names, NEW f \in Files \cup {Absent}, Put(x, f)
  PROVE  /\ DiskType' /\ disk'[x] = f
         /\ \A y \in Names \ {x} : disk'[y] = disk[y]
<1>1. disk' = [disk EXCEPT ![x] = f]
  BY DEF Put
<1> QED
  BY <1>1 DEF DiskType

LEMMA ExchangeDoes ==
  ASSUME DiskType, NEW x \in Names, NEW y \in Names, x # y, Exchange(x, y)
  PROVE  /\ DiskType' /\ disk'[x] = disk[y] /\ disk'[y] = disk[x]
         /\ \A z \in Names \ {x, y} : disk'[z] = disk[z]
<1>1. disk' = [disk EXCEPT ![x] = disk[y], ![y] = disk[x]]
  BY DEF Exchange
<1>2. /\ disk'[x] = disk[y] /\ disk'[y] = disk[x]
      /\ \A z \in Names \ {x, y} : disk'[z] = disk[z]
  BY <1>1 DEF DiskType
<1>3. disk[x] \in Files \cup {Absent} /\ disk[y] \in Files \cup {Absent}
  BY DEF DiskType
<1>4. DiskType'
  BY <1>1, <1>3 DEF DiskType
<1> QED
  BY <1>2, <1>4

LEMMA MoveAsideDoes ==
  ASSUME DiskType, NEW x \in Names, x # Public, MoveAside(x)
  PROVE  /\ DiskType' /\ disk'[x] = disk[Public] /\ disk'[Public] = Absent
         /\ \A z \in Names \ {x, Public} : disk'[z] = disk[z]
<1>1. disk' = [disk EXCEPT ![x] = disk[Public], ![Public] = Absent]
  BY DEF MoveAside
<1>2. Public \in Names
  BY Places
<1>3. /\ disk'[x] = disk[Public] /\ disk'[Public] = Absent
      /\ \A z \in Names \ {x, Public} : disk'[z] = disk[z]
  BY <1>1, <1>2 DEF DiskType
<1>4. disk[Public] \in Files \cup {Absent}
  BY <1>2 DEF DiskType
<1>5. DiskType'
  BY <1>1, <1>4 DEF DiskType
<1> QED
  BY <1>3, <1>5

LEMMA ReplaceDoes ==
  ASSUME DiskType, NEW w \in Names, NEW x \in Names, w # x, x # Public, w # Public, Replace(w, x)
  PROVE  /\ DiskType' /\ disk'[x] = disk[Public] /\ disk'[Public] = disk[w] /\ disk'[w] = Absent
         /\ \A z \in Names \ {w, x, Public} : disk'[z] = disk[z]
<1>1. disk' = [disk EXCEPT ![x] = disk[Public], ![Public] = disk[w], ![w] = Absent]
  BY DEF Replace
<1>2. Public \in Names
  BY Places
<1>3. /\ disk'[x] = disk[Public] /\ disk'[Public] = disk[w] /\ disk'[w] = Absent
      /\ \A z \in Names \ {w, x, Public} : disk'[z] = disk[z]
  BY <1>1, <1>2 DEF DiskType
<1>4. disk[Public] \in Files \cup {Absent} /\ disk[w] \in Files \cup {Absent}
  BY <1>2 DEF DiskType
<1>5. DiskType'
  BY <1>1, <1>4 DEF DiskType
<1> QED
  BY <1>3, <1>5

----------------------------------------------------------------------------
(* A step of an update that works                                           *)

LEMMA Typed ==
  ASSUME IInv
  PROVE  /\ Updates /\ DiskType /\ TypeOK /\ Kinds
         /\ \A n \in Attempt : Phase(n)
         /\ Locked /\ Cleanups /\ Copies /\ Traced /\ Recoverable /\ Settled
<1>1. TypeOK /\ Kinds
  BY DEF IInv
<1>2. Updates
  BY <1>1 DEF TypeOK, Kinds, Updates, Labels, Reasons, Decided, Reports
<1>3. DiskType
  BY <1>1 DEF TypeOK, DiskType
<1> QED
  BY <1>1, <1>2, <1>3 DEF IInv, Phases

LEMMA TurnWorks ==
  ASSUME IInv, NEW n \in Attempt, Turn(n)
  PROVE  Work(n)
<1>1. Updates /\ TypeOK
  BY Typed
<1>2. pc' \in [Attempt -> Labels] /\ pc'[n] \in Past \cup {"reported"}
      /\ \A m \in Attempt \ {n} : pc'[m] = pc[m]
  <2>1. PICK l \in Past \cup {"reported"} : Goto(n, l)
    BY DEF Turn
  <2>2. l \in Labels
    BY <2>1 DEF Labels, Working
  <2> QED
    BY <1>1, <2>1, <2>2, Change DEF Updates, Goto
<1>3. outcome' \in [Attempt -> Reports] /\ \A m \in Attempt \ {n} : outcome'[m] = outcome[m]
  BY <1>1, Change DEF Updates, Turn
<1>4. why' \in [Attempt -> Reasons] /\ \A m \in Attempt \ {n} : why'[m] = why[m]
  <2>1. CASE why' = why
    BY <1>1, <2>1 DEF Updates
  <2>2. ASSUME NEW r \in Reasons, Because(n, r)
        PROVE  why' \in [Attempt -> Reasons] /\ \A m \in Attempt \ {n} : why'[m] = why[m]
    BY <1>1, <2>2, Change DEF Updates, Because
  <2> QED
    BY <2>1, <2>2 DEF Turn
<1>5. want' \in [Attempt -> Files \cup {Absent}] /\ \A m \in Attempt \ {n} : want'[m] = want[m]
  BY <1>1, Change DEF Updates, Turn
<1>6. bound' \in [Attempt -> Files \cup {Absent}] /\ \A m \in Attempt \ {n} : bound'[m] = bound[m]
  BY <1>1, Change DEF Updates, Turn
<1>7. completion' \in [Attempt -> Decided]
      /\ \A m \in Attempt \ {n} : completion'[m] = completion[m]
  BY <1>1, Change DEF Updates, Turn
<1>8. Updates' /\ Others(n)
  BY <1>2, <1>3, <1>4, <1>5, <1>6, <1>7 DEF Updates, Others
<1>9. faults' \in 0 .. MaxFaults
  BY <1>1, Numbers DEF Turn, Fault, TypeOK
<1> QED
  BY <1>2, <1>8, <1>9 DEF Turn, Work

LEMMA WorkTypes ==
  ASSUME IInv, NEW n \in Attempt, Work(n), DiskType'
  PROVE  TypeOK' /\ Kinds' /\ Locked'
<1>1. TypeOK /\ Kinds /\ Locked
  BY Typed
<1>2. n \in Cleaners
  BY Numbers
<1>3. clean' \in [Cleaners -> [at : Cleaning \cup {"idle", "ready"}, of : Cleaners]]
  BY <1>1, <1>2 DEF Work, Kinds
<1>4. lease = Updater(n)
  BY <1>1 DEF Work, Locked
<1>5. \A c \in Cleaners : clean'[c].at \in Cleaning => clean[c].at \in Cleaning
  <2> SUFFICES ASSUME NEW c \in Cleaners, clean'[c].at \in Cleaning PROVE clean[c].at \in Cleaning
    OBVIOUS
  <2>1. CASE clean' = clean
    BY <2>1
  <2>2. CASE clean' = [clean EXCEPT ![n] = [at |-> "ready", of |-> n]] /\ c = n
    BY <1>1, <1>2, <2>2 DEF Kinds, Cleaning, Removing
  <2>3. CASE clean' = [clean EXCEPT ![n] = [at |-> "ready", of |-> n]] /\ c # n
    BY <1>1, <1>2, <2>3 DEF Kinds
  <2> QED
    BY <2>1, <2>2, <2>3 DEF Work
<1>6. Locked'
  <2>1. \A m \in Attempt : pc'[m] \in Working => lease' = Updater(m)
    BY <1>1, <1>4 DEF Work, Others, Locked
  <2>2. \A c \in Cleaners : clean'[c].at \in Cleaning => lease' = Cleaner(c)
    BY <1>1, <1>5 DEF Work, Locked
  <2> QED
    BY <2>1, <2>2 DEF Locked
<1>7. \A m \in Attempt : lease' = Updater(m) => pc'[m] \notin {"idle", "queued", "gone"}
  BY <1>4, Holders DEF Work, Past, Deciding, Finishing
<1>8. \A c \in Cleaners : clean'[c].of \in Cleaners /\ lease' # Cleaner(c)
  BY <1>3, <1>4, Holders DEF Work
<1>9. lease' \in {Nobody} \cup {Updater(m) : m \in Attempt} \cup {Cleaner(c) : c \in Cleaners}
  BY <1>4 DEF Work
<1>10. Kinds'
  BY <1>3 DEF Work, Updates, Kinds
<1>11. TypeOK'
  <2>1. platform' \in {"unix", "windows"} /\ overwritten' \subseteq Files
    BY <1>1 DEF Work, TypeOK
  <2>2. /\ bound' \in [Attempt -> Files \cup {Absent}]
        /\ completion' \in [Attempt -> {"none", "rolledBack", "committed"}]
        /\ outcome' \in [Attempt -> {"none", "refused", "restored", "preserved", "committed"}]
    BY DEF Work, Updates, Decided, Reports
  <2>3. disk' \in [Names -> Files \cup {Absent}]
    BY DEF DiskType
  <2>4. faults' \in 0 .. MaxFaults
    BY DEF Work
  <2> QED
    BY <1>7, <1>8, <1>9, <2>1, <2>2, <2>3, <2>4 DEF TypeOK
<1> QED
  BY <1>6, <1>10, <1>11


LEMMA NothingNew ==
  ASSUME NEW n \in Attempt, NEW m \in Attempt \ {n}, OnlyOwn(n)
  PROVE  /\ ~ OnDisk(Candidate(m)) => ~ OnDisk(Candidate(m))'
         /\ ~ OnDisk(Copy(m)) => ~ OnDisk(Copy(m))'
<1>1. Candidate(m) \notin {Absent, Torn, Copy(n), Candidate(n), Record(n)}
  BY Tokens
<1>2. Copy(m) \notin {Absent, Torn, Copy(n), Candidate(n), Record(n)}
  BY Tokens
<1>3. ~ OnDisk(Candidate(m)) => ~ OnDisk(Candidate(m))'
  BY <1>1 DEF OnlyOwn, OnDisk
<1>4. ~ OnDisk(Copy(m)) => ~ OnDisk(Copy(m))'
  BY <1>2 DEF OnlyOwn, OnDisk
<1> QED
  BY <1>3, <1>4

(* Nobody else works.                                                       *)
LEMMA Alone ==
  ASSUME IInv, NEW n \in Attempt, pc[n] \in Working
  PROVE  /\ lease = Updater(n)
         /\ \A m \in Attempt \ {n} : pc[m] \in {"idle", "queued", "reported", "gone"}
<1>1. lease = Updater(n)
  BY Typed DEF Locked
<1>2. \A m \in Attempt \ {n} : pc[m] \in {"idle", "queued", "reported", "gone"}
  BY <1>1, Typed, Holders DEF Locked, Updates, Labels
<1> QED
  BY <1>1, <1>2

LEMMA WorkPhases ==
  ASSUME IInv, NEW n \in Attempt, Work(n), OnlyOwn(n), Phase(n)'
  PROVE  Phases'
<1> SUFFICES ASSUME NEW m \in Attempt, m # n PROVE Phase(m)'
  BY DEF Phases
<1>1. pc'[m] = pc[m] /\ pc[m] \in {"idle", "queued", "reported", "gone"}
  BY Alone DEF Work, Others
<1>2. bound'[m] = bound[m] /\ completion'[m] = completion[m] /\ outcome'[m] = outcome[m]
  BY DEF Work, Others
<1>3. Unborn(m) => Unborn(m)'
  BY NothingNew DEF Unborn, OnlyOwn
<1>4. Phase(m)
  BY Typed
<1>5. pc[m] \in {"idle", "queued"} => Unborn(m)' /\ bound'[m] = Absent /\ Open(m)'
  BY <1>2, <1>3, <1>4 DEF Phase, Open
<1>6. pc[m] \notin {"reported", "gone"} => outcome'[m] = "none"
  BY <1>2, <1>4 DEF Phase
<1>7. pc'[m] \notin Deciding \cup Finishing \cup {"dropDisplaced"}
  BY <1>1 DEF Deciding, Finishing
<1> QED
  BY <1>1, <1>5, <1>6, <1>7 DEF Phase, Deciding, Finishing

LEMMA WorkSettled ==
  ASSUME IInv, NEW n \in Attempt, Work(n), OnlyOwn(n), pc[n] \in Past, bound' = bound,
         outcome'[n] = "restored" => Restored(n)'
  PROVE  Settled'
<1> SUFFICES ASSUME NEW m \in Attempt, m # n, outcome'[m] = "restored" PROVE Restored(m)'
  BY DEF Settled
<1>1. outcome[m] = "restored" /\ want'[m] = want[m] /\ overwritten' = overwritten
  BY DEF Work, Others
<1>2. Restored(m)
  BY <1>1, Typed DEF Settled
<1>3. ~ OnDisk(Copy(m))' /\ ~ OnDisk(Candidate(m))'
  BY <1>2, NothingNew DEF Restored
<1>4. want'[m] \in overwritten' \/ \E i \in Attempt \ {m} : bound'[i] = want'[m]
  BY <1>1, <1>2 DEF Restored
<1> QED
  BY <1>1, <1>2, <1>3, <1>4 DEF Restored

(* What the disk has to fit, whoever changes it; and which updates are      *)
(* open.                                                                    *)
DiskFits == DiskType /\ Copies /\ Traced /\ Recoverable /\ Cleanups
AsOpen   == \A m \in Attempt : Open(m)' <=> Open(m)

LEMMA WorkKeeps ==
  ASSUME IInv, NEW n \in Attempt, Work(n), OnlyOwn(n), DiskFits', Phase(n)', Settled'
  PROVE  IInv'
<1>1. Phases'
  BY WorkPhases
<1>2. TypeOK' /\ Kinds' /\ Locked'
  BY WorkTypes DEF DiskFits
<1> QED
  BY <1>1, <1>2 DEF IInv, DiskFits

LEMMA SameDisk ==
  ASSUME IInv, NEW n \in Attempt, Work(n), disk' = disk
  PROVE  OnlyOwn(n) /\ DiskType' /\ Copies'
<1>1. OnlyOwn(n)
  BY DEF OnlyOwn
<1>2. DiskType' /\ Copies'
  BY Typed DEF DiskType, Copies
<1> QED
  BY <1>1, <1>2

LEMMA CleanupsKept ==
  ASSUME IInv, NEW n \in Attempt, Work(n), AsOpen,
         \A m \in Attempt : disk'[Journal] = Record(m) => disk[Journal] = Record(m)
  PROVE  Cleanups'
<1>1. Cleanups /\ Kinds
  BY Typed
<1>2. \A m \in Attempt : disk'[Journal] = Record(m) => ~ Open(m)'
  BY <1>1 DEF Cleanups, AsOpen
<1>3. ASSUME NEW c \in Cleaners, clean'[c].at \in Removing
      PROVE  clean'[c].of \in Attempt /\ completion'[clean'[c].of] = "committed"
  <2>1. clean'[c] = clean[c]
    <3>1. CASE clean' = clean
      BY <3>1
    <3>2. CASE clean' = [clean EXCEPT ![n] = [at |-> "ready", of |-> n]]
      BY <1>1, <1>3, <3>2, Numbers DEF Kinds, Removing
    <3> QED
      BY <3>1, <3>2 DEF Work
  <2>2. clean[c].of \in Attempt /\ ~ Open(clean[c].of)
    BY <1>1, <1>3, <2>1 DEF Cleanups
  <2> QED
    BY <2>1, <2>2 DEF AsOpen, Open
<1> QED
  BY <1>2, <1>3 DEF Cleanups, Open

LEMMA SameDiskFits ==
  ASSUME IInv, NEW n \in Attempt, Work(n), disk' = disk, AsOpen
  PROVE  OnlyOwn(n) /\ DiskFits'
<1>1. platform' = platform
  BY DEF Work
<1>2. Traced'
  BY Typed DEF Traced, AsOpen
<1>3. \A m \in Attempt : Displaced(m)' = Displaced(m)
  BY <1>1 DEF Displaced
<1>4. Recoverable'
  <2>1. \A m \in Attempt : disk'[Public] = Candidate(m) /\ Open(m)' => disk'[Displaced(m)'] # Absent
    BY <1>3, Typed DEF Recoverable, AsOpen
  <2>2. disk'[Public] = Absent =>
          /\ platform' = "windows"
          /\ \E m \in Attempt : Open(m)' /\ disk'[Aside(m)] # Absent /\ disk'[Backup] = Copy(m)
    BY <1>1, Typed DEF Recoverable, AsOpen
  <2> QED
    BY <2>1, <2>2 DEF Recoverable
<1>5. Cleanups'
  BY CleanupsKept
<1> QED
  BY <1>2, <1>4, <1>5, SameDisk DEF DiskFits

(* The disk as it was: a look, a decision or a failure.                     *)
LEMMA Looked ==
  ASSUME IInv, NEW n \in Attempt, Turn(n), pc[n] \in Past, disk' = disk, bound' = bound,
         AsOpen, outcome'[n] # "restored", Phase(n)'
  PROVE  IInv'
<1>1. Work(n)
  BY TurnWorks
<1>2. OnlyOwn(n) /\ DiskFits'
  BY <1>1, SameDiskFits
<1>3. Settled'
  BY <1>1, <1>2, WorkSettled
<1> QED
  BY <1>1, <1>2, <1>3, WorkKeeps

LEMMA EndFits ==
  ASSUME NEW n \in Attempt, pc'[n] = "reported"
  PROVE  Phase(n)'
<1>1. pc'[n] \notin {"idle", "queued", "prepare", "stage", "check", "publish", "classify",
                     "classifyUnconfirmed", "takeBack", "swapBack", "verify",
                     "verifyUnconfirmed", "fillEmpty", "dropCandidate", "dropBackup", "pending",
                     "dropDisplaced", "dropCopy", "spawn"}
  OBVIOUS
<1> QED
  BY <1>1 DEF Phase, Deciding, Finishing

LEMMA SameCompletion ==
  ASSUME completion' = completion
  PROVE  AsOpen
BY DEF AsOpen, Open

(* Reported without touching anything.                                      *)
LEMMA LeftAsIs ==
  ASSUME IInv, NEW n \in Attempt, pc[n] \in Past, NEW o \in Reports, o # "restored", Report(n, o),
         UNCHANGED <<platform, disk, bound, completion, lease, overwritten>>,
         why' = why \/ \E r \in Reasons : Because(n, r),
         want' = want \/ \E f \in Files \cup {Absent} : want' = [want EXCEPT ![n] = f],
         faults' = faults \/ Fault, clean' = clean
  PROVE  IInv'
<1>1. pc[n] \in Working
  BY DEF Working
<1>2. Turn(n)
  BY <1>1 DEF Turn, Report, Goto
<1>3. pc'[n] = "reported" /\ outcome'[n] = o
  BY Typed DEF Report, Updates
<1>4. Phase(n)'
  BY <1>3, EndFits
<1> QED
  BY <1>2, <1>3, <1>4, Looked, SameCompletion

----------------------------------------------------------------------------
(* Looking and deciding                                                     *)

(* What holds of an update wherever it decides.                             *)
LEMMA Undecided ==
  ASSUME IInv, NEW n \in Attempt, pc[n] \in Deciding
  PROVE  /\ pc[n] \in Past /\ pc[n] \in Working
         /\ Open(n) /\ disk[Backup] = Copy(n) /\ bound[n] # Absent /\ outcome[n] = "none"
         /\ bound[n] \in Files \cup {Absent}
<1>1. Phase(n) /\ Updates
  BY Typed
<1>2. pc[n] \in Past /\ pc[n] \in Working /\ pc[n] \notin {"reported", "gone"}
  BY DEF Past, Working, Deciding
<1> QED
  BY <1>1, <1>2 DEF Phase, Updates

(* Where an update that still decides goes on with the disk as it was.      *)
LEMMA WentOn ==
  ASSUME IInv, NEW n \in Attempt, pc[n] \in Deciding, NEW l \in Deciding, Goto(n, l), Turn(n),
         disk' = disk, bound' = bound, outcome' = outcome, AsOpen, Phase(n)'
  PROVE  IInv'
<1>1. outcome'[n] = "none" /\ pc[n] \in Past
  BY Undecided
<1> QED
  BY <1>1, Looked

LEMMA CheckCurrentKeeps ==
  ASSUME IInv, NEW n \in Attempt, CheckCurrent(n)
  PROVE  IInv'
<1>1. /\ pc[n] = "check" /\ pc[n] \in Deciding
      /\ UNCHANGED <<platform, disk, bound, want, completion, lease, clean, overwritten>>
  BY DEF CheckCurrent, Deciding
<1>2. /\ Open(n) /\ disk[Backup] = Copy(n) /\ bound[n] # Absent /\ outcome[n] = "none"
      /\ pc[n] \in Working /\ pc[n] \in Past /\ Ready(n)
  BY <1>1, Undecided, Typed DEF Phase
<1>3. AsOpen
  BY <1>1, SameCompletion
<1>4. CASE Goto(n, "publish") /\ UNCHANGED <<why, outcome, faults>>
  <2>1. "publish" \in Deciding /\ "publish" \in Past
    BY DEF Deciding, Past
  <2>2. Turn(n)
    BY <1>1, <1>2, <1>4, <2>1 DEF Turn
  <2>3. pc'[n] = "publish"
    BY <1>4, Typed DEF Goto, Updates
  <2>4. Ready(n)' /\ Open(n)'
    BY <1>1, <1>2 DEF Ready, Open
  <2>5. Phase(n)'
    BY <1>1, <1>2, <1>4, <2>3, <2>4 DEF Phase, Deciding, Finishing
  <2> QED
    BY <1>1, <1>3, <1>4, <2>1, <2>2, <2>5, WentOn
<1>5. CASE /\ Goto(n, "dropCandidate") /\ Because(n, "refused") /\ UNCHANGED outcome
           /\ faults' = faults \/ Fault
  <2>1. "dropCandidate" \in Deciding /\ "dropCandidate" \in Past /\ "refused" \in Reasons
    BY DEF Deciding, Past, Reasons
  <2>2. Turn(n)
    BY <1>1, <1>2, <1>5, <2>1 DEF Turn
  <2>3. pc'[n] = "dropCandidate" /\ why'[n] = "refused"
    BY <1>5, Typed DEF Goto, Because, Updates
  <2>4. disk'[Public] \notin {Absent, Candidate(n)} /\ Open(n)'
    BY <1>1, <1>2 DEF Ready, Open
  <2>5. Phase(n)'
    BY <1>1, <1>2, <1>5, <2>3, <2>4 DEF Phase, Deciding, Finishing
  <2> QED
    BY <1>1, <1>3, <1>5, <2>1, <2>2, <2>5, WentOn
<1>6. CASE Report(n, "preserved") /\ UNCHANGED why /\ Fault
  <2>1. "preserved" \in Reports
    BY DEF Reports
  <2> QED
    BY <1>1, <1>2, <1>6, <2>1, LeftAsIs
<1> QED
  BY <1>4, <1>5, <1>6 DEF CheckCurrent

LEMMA DisplacedPlace ==
  ASSUME NEW n \in Attempt
  PROVE  /\ Displaced(n) \in Names /\ Displaced(n) \in {Staged, Aside(n)}
         /\ Displaced(n) \notin {Public, Backup, Journal, Failed(n)}
         /\ platform = "windows" => Displaced(n) = Aside(n)
BY Places, OwnPlaces DEF Displaced

LEMMA OutStays ==
  ASSUME NEW n \in Attempt, disk' = disk, platform' = platform
  PROVE  Displaced(n)' = Displaced(n) /\ (Out(n)' <=> Out(n)) /\ (Ready(n)' <=> Ready(n))
BY DEF Displaced, Out, Ready

LEMMA ClassifyKeeps ==
  ASSUME IInv, NEW n \in Attempt, Classify(n)
  PROVE  IInv'
<1> DEFINE aside == disk[Displaced(n)]
<1>1. /\ pc[n] \in {"classify", "classifyUnconfirmed"} /\ want' = [want EXCEPT ![n] = aside]
      /\ UNCHANGED <<platform, disk, bound, completion, lease, clean, overwritten, faults>>
  BY DEF Classify
<1>2. pc[n] \in Deciding
  BY <1>1 DEF Deciding
<1>3. /\ Open(n) /\ disk[Backup] = Copy(n) /\ bound[n] # Absent /\ outcome[n] = "none"
      /\ pc[n] \in Working /\ pc[n] \in Past
  BY <1>2, Undecided
<1>4. Ready(n) \/ Out(n) \/ Gap(n)
  BY <1>1, Typed DEF Phase
<1>5. AsOpen /\ Open(n)'
  BY <1>1, <1>3, SameCompletion DEF Open
<1>6. aside \in Files \cup {Absent} /\ aside = disk[Displaced(n)]
  BY DisplacedPlace, Typed DEF DiskType
<1>7. want'[n] = aside
  BY <1>1, <1>6, Typed DEF Updates
<1>8. Out(n)' <=> Out(n)
  BY <1>1, OutStays
<1> HIDE DEF aside
<1>9. ASSUME NEW l \in {"pending", "takeBack", "dropCandidate", "fillEmpty"}, Goto(n, l),
             why' = why \/ \E r \in Reasons : Because(n, r), outcome' = outcome
      PROVE  l \in Deciding /\ Turn(n) /\ pc'[n] = l
  <2>1. l \in Deciding /\ l \in Past
    BY DEF Deciding, Past
  <2>2. Turn(n)
    BY <1>1, <1>3, <1>6, <1>9, <2>1 DEF Turn
  <2>3. pc'[n] = l
    BY <1>9, Typed DEF Goto, Updates
  <2> QED
    BY <2>1, <2>2, <2>3
<1>10. {"unconfirmed", "foreign", "refused"} \subseteq Reasons
  BY DEF Reasons
<1>11. ASSUME NEW l \in {"pending", "takeBack"}, disk[Public] = Candidate(n), Goto(n, l), outcome' = outcome,
              why' = why \/ \E r \in Reasons : Because(n, r)
       PROVE  IInv'
  <2>1. l \in Deciding /\ Turn(n) /\ pc'[n] = l
    BY <1>9, <1>11
  <2>2. Out(n)'
    BY <1>4, <1>8, <1>11 DEF Ready, Gap
  <2>3. Phase(n)'
    BY <1>1, <1>3, <1>5, <1>11, <2>1, <2>2 DEF Phase, Deciding, Finishing
  <2> QED
    BY <1>1, <1>2, <1>5, <1>11, <2>1, <2>3, WentOn
<1>12. CASE /\ disk[Public] = bound[n] /\ disk[Staged] = Candidate(n)
            /\ Goto(n, "dropCandidate") /\ Because(n, "refused") /\ UNCHANGED outcome
  <2>1. "dropCandidate" \in Deciding /\ Turn(n) /\ pc'[n] = "dropCandidate"
    BY <1>9, <1>10, <1>12
  <2>2. why'[n] = "refused"
    BY <1>10, <1>12, Typed DEF Because, Updates
  <2>3. disk'[Public] \notin {Absent, Candidate(n)}
    BY <1>1, <1>3, <1>4, <1>12 DEF Ready, Out, Gap
  <2>4. Phase(n)'
    BY <1>1, <1>3, <1>5, <1>12, <2>1, <2>2, <2>3 DEF Phase, Deciding, Finishing
  <2> QED
    BY <1>1, <1>2, <1>5, <1>12, <2>1, <2>4, WentOn
<1>13. CASE /\ disk[Public] = Absent /\ disk[Staged] = Candidate(n) /\ aside \notin {Absent, Candidate(n)}
            /\ Goto(n, "fillEmpty") /\ Because(n, "refused") /\ UNCHANGED outcome
  <2>1. "fillEmpty" \in Deciding /\ Turn(n) /\ pc'[n] = "fillEmpty"
    BY <1>9, <1>10, <1>13
  <2>2. platform = "windows"
    BY <1>4, <1>13 DEF Ready, Out, Gap
  <2>3. disk'[Aside(n)] = want'[n] /\ want'[n] \notin {Absent, Candidate(n)}
    BY <1>1, <1>6, <1>7, <1>13, <2>2, DisplacedPlace
  <2>4. disk'[Public] # Candidate(n)
    BY <1>1, <1>13, Tokens
  <2>5. Phase(n)'
    BY <1>1, <1>3, <1>5, <1>13, <2>1, <2>3, <2>4 DEF Phase, Deciding, Finishing
  <2> QED
    BY <1>1, <1>2, <1>5, <1>13, <2>1, <2>5, WentOn
<1>14. CASE Report(n, "preserved") /\ UNCHANGED why
  <2>1. "preserved" \in Reports
    BY DEF Reports
  <2> QED
    BY <1>1, <1>3, <1>6, <1>14, <2>1, LeftAsIs
<1> QED
  BY <1>10, <1>11, <1>12, <1>13, <1>14 DEF Classify, aside

LEMMA RolledBack ==
  ASSUME IInv, NEW n \in Attempt, Open(n), completion' = [completion EXCEPT ![n] = "rolledBack"]
  PROVE  AsOpen /\ Open(n)'
<1>1. completion'[n] = "rolledBack" /\ \A m \in Attempt \ {n} : completion'[m] = completion[m]
  BY Typed DEF Updates
<1> QED
  BY <1>1 DEF AsOpen, Open

LEMMA InterruptedKeeps ==
  ASSUME IInv, NEW n \in Attempt, Interrupted(n)
  PROVE  IInv'
<1>1. /\ pc[n] \in {"classify", "classifyUnconfirmed"} /\ Fault
      /\ completion' = [completion EXCEPT ![n] = "rolledBack"]
      /\ Because(n, "rollback") /\ want' = [want EXCEPT ![n] = bound[n]] /\ Goto(n, "takeBack")
      /\ UNCHANGED <<platform, disk, bound, outcome, lease, clean, overwritten>>
  BY DEF Interrupted
<1>2. pc[n] \in Deciding /\ "takeBack" \in Deciding /\ "takeBack" \in Past
  BY <1>1 DEF Deciding, Past
<1>3. /\ Open(n) /\ disk[Backup] = Copy(n) /\ bound[n] # Absent /\ outcome[n] = "none"
      /\ pc[n] \in Working /\ bound[n] \in Files \cup {Absent}
  BY <1>2, Undecided
<1>4. AsOpen /\ Open(n)'
  BY <1>1, <1>3, RolledBack
<1>5. (Ready(n) \/ Out(n) \/ Gap(n))'
  <2>1. Ready(n) \/ Out(n) \/ Gap(n)
    BY <1>1, Typed DEF Phase
  <2>2. Gap(n)' <=> Gap(n)
    BY <1>1 DEF Gap
  <2> QED
    BY <1>1, <2>1, <2>2, OutStays
<1>6. "rolledBack" \in Decided /\ "rollback" \in Reasons
  BY DEF Decided, Reasons
<1>7. Turn(n)
  BY <1>1, <1>2, <1>3, <1>6 DEF Turn
<1>8. pc'[n] = "takeBack"
  BY <1>1, Typed DEF Goto, Updates
<1>9. Phase(n)'
  BY <1>1, <1>3, <1>4, <1>5, <1>8 DEF Phase, Deciding, Finishing
<1> QED
  BY <1>1, <1>2, <1>4, <1>7, <1>9, WentOn

LEMMA RollbackKeeps ==
  ASSUME IInv, NEW n \in Attempt, Rollback(n)
  PROVE  IInv'
<1>1. /\ pc[n] = "pending" /\ completion' = [completion EXCEPT ![n] = "rolledBack"]
      /\ Because(n, "rollback") /\ Goto(n, "takeBack")
      /\ UNCHANGED <<platform, disk, bound, want, outcome, lease, clean, overwritten, faults>>
  BY DEF Rollback
<1>2. pc[n] \in Deciding /\ "takeBack" \in Deciding /\ "takeBack" \in Past
  BY <1>1 DEF Deciding, Past
<1>3. /\ Open(n) /\ disk[Backup] = Copy(n) /\ bound[n] # Absent /\ outcome[n] = "none"
      /\ pc[n] \in Working
  BY <1>2, Undecided
<1>4. AsOpen /\ Open(n)'
  BY <1>1, <1>3, RolledBack
<1>5. Out(n)'
  BY <1>1, OutStays, Typed DEF Phase
<1>6. "rolledBack" \in Decided /\ "rollback" \in Reasons
  BY DEF Decided, Reasons
<1>7. Turn(n)
  BY <1>1, <1>2, <1>3, <1>6 DEF Turn
<1>8. pc'[n] = "takeBack"
  BY <1>1, Typed DEF Goto, Updates
<1>9. Phase(n)'
  BY <1>1, <1>3, <1>4, <1>5, <1>8 DEF Phase, Deciding, Finishing
<1> QED
  BY <1>1, <1>2, <1>4, <1>7, <1>9, WentOn

LEMMA PreserveKeeps ==
  ASSUME IInv, NEW n \in Attempt, Preserve(n)
  PROVE  IInv'
<1>1. pc[n] \in Past /\ "preserved" \in Reports
  BY DEF Preserve, Past, Deciding, Reports
<1> QED
  BY <1>1, LeftAsIs DEF Preserve

LEMMA TakeBackCheckKeeps ==
  ASSUME IInv, NEW n \in Attempt, TakeBackCheck(n)
  PROVE  IInv'
<1>1. /\ pc[n] = "takeBack"
      /\ UNCHANGED <<platform, disk, bound, why, want, completion, lease, clean, overwritten, faults>>
  BY DEF TakeBackCheck
<1>2. pc[n] \in Deciding
  BY <1>1 DEF Deciding
<1>3. /\ Open(n) /\ disk[Backup] = Copy(n) /\ bound[n] # Absent /\ outcome[n] = "none"
      /\ pc[n] \in Working /\ pc[n] \in Past
  BY <1>2, Undecided
<1>4. CASE Report(n, "preserved")
  <2>1. "preserved" \in Reports
    BY DEF Reports
  <2> QED
    BY <1>1, <1>3, <1>4, <2>1, LeftAsIs
<1>5. CASE disk[Public] = Candidate(n) /\ disk[Displaced(n)] = want[n] /\ Goto(n, "swapBack") /\ UNCHANGED outcome
  <2>1. "swapBack" \in Deciding /\ "swapBack" \in Past
    BY DEF Deciding, Past
  <2>2. AsOpen /\ Open(n)'
    BY <1>1, <1>3, SameCompletion DEF Open
  <2>3. Out(n)' /\ Displaced(n)' = Displaced(n)
    <3>1. Out(n)
      BY <1>1, <1>5, Typed DEF Phase, Ready, Gap
    <3> QED
      BY <1>1, <3>1, OutStays
  <2>4. Turn(n)
    BY <1>1, <1>3, <1>5, <2>1 DEF Turn
  <2>5. pc'[n] = "swapBack"
    BY <1>5, Typed DEF Goto, Updates
  <2>6. disk'[Displaced(n)'] = want'[n]
    BY <1>1, <1>5, <2>3
  <2>7. Phase(n)'
    BY <1>1, <1>3, <1>5, <2>2, <2>3, <2>5, <2>6 DEF Phase, Deciding, Finishing
  <2> QED
    BY <1>1, <1>2, <1>5, <2>1, <2>2, <2>4, <2>7, WentOn
<1> QED
  BY <1>4, <1>5 DEF TakeBackCheck

LEMMA VerifyKeeps ==
  ASSUME IInv, NEW n \in Attempt, Verify(n)
  PROVE  IInv'
<1>1. /\ pc[n] \in {"verify", "verifyUnconfirmed"}
      /\ UNCHANGED <<platform, disk, bound, why, want, completion, lease, clean, overwritten, faults>>
  BY DEF Verify
<1>2. pc[n] \in Deciding
  BY <1>1 DEF Deciding
<1>3. /\ Open(n) /\ disk[Backup] = Copy(n) /\ bound[n] # Absent /\ outcome[n] = "none"
      /\ pc[n] \in Working /\ pc[n] \in Past
  BY <1>2, Undecided
<1>4. want[n] \notin {Absent, Candidate(n)}
  BY <1>1, Typed DEF Phase
<1>5. AsOpen /\ Open(n)'
  BY <1>1, <1>3, SameCompletion DEF Open
<1>6. ASSUME NEW l \in {"dropCandidate", "fillEmpty"}, Goto(n, l), outcome' = outcome
      PROVE  l \in Deciding /\ Turn(n) /\ pc'[n] = l
  <2>1. l \in Deciding /\ l \in Past
    BY DEF Deciding, Past
  <2>2. Turn(n)
    BY <1>1, <1>3, <1>6, <2>1 DEF Turn
  <2>3. pc'[n] = l
    BY <1>6, Typed DEF Goto, Updates
  <2> QED
    BY <2>1, <2>2, <2>3
<1>7. CASE TakenBack(n) /\ Goto(n, "dropCandidate") /\ UNCHANGED outcome
  <2>1. "dropCandidate" \in Deciding /\ Turn(n) /\ pc'[n] = "dropCandidate"
    BY <1>6, <1>7
  <2>2. disk'[Public] = want'[n] /\ want'[n] \notin {Absent, Candidate(n)}
    BY <1>1, <1>4, <1>7 DEF TakenBack
  <2>3. disk'[Public] \notin {Absent, Candidate(n)} /\ want'[n] # Absent /\ Back(n)'
    BY <2>2 DEF Back
  <2>4. Phase(n)'
    BY <1>1, <1>3, <1>5, <1>7, <2>1, <2>3 DEF Phase, Deciding, Finishing
  <2> QED
    BY <1>1, <1>2, <1>5, <1>7, <2>1, <2>4, WentOn
<1>8. CASE /\ disk[Public] = Absent /\ disk[Aside(n)] = want[n]
           /\ Goto(n, "fillEmpty") /\ UNCHANGED outcome
  <2>1. "fillEmpty" \in Deciding /\ Turn(n) /\ pc'[n] = "fillEmpty"
    BY <1>6, <1>8
  <2>2. disk'[Aside(n)] = want'[n] /\ want'[n] \notin {Absent, Candidate(n)} /\ disk'[Public] # Candidate(n)
    BY <1>1, <1>4, <1>8, Tokens
  <2>3. Phase(n)'
    BY <1>1, <1>3, <1>5, <1>8, <2>1, <2>2 DEF Phase, Deciding, Finishing
  <2> QED
    BY <1>1, <1>2, <1>5, <1>8, <2>1, <2>3, WentOn
<1>9. CASE Report(n, "preserved")
  <2>1. "preserved" \in Reports
    BY DEF Reports
  <2> QED
    BY <1>1, <1>3, <1>9, <2>1, LeftAsIs
<1> QED
  BY <1>7, <1>8, <1>9 DEF Verify

----------------------------------------------------------------------------
(* Making the copy and the candidate                                        *)

(* While the backup is an update's, no other open update is exchanged.      *)
LEMMA Exclusive ==
  ASSUME IInv, NEW n \in Attempt, disk[Backup] = Copy(n)
  PROVE  /\ \A m \in Attempt \ {n} : Open(m) => \A x \in Names : disk[x] = Candidate(m) => x = Failed(m)
         /\ Open(n) => \A x \in Names : disk[x] = Candidate(n) => x \in {Failed(n), Public, Staged}
         /\ disk[Public] = Absent => platform = "windows" /\ Open(n) /\ disk[Aside(n)] # Absent
<1>1. Traced /\ Recoverable
  BY Typed
<1>2. disk[Backup] # Absent /\ \A m \in Attempt \ {n} : disk[Backup] # Copy(m)
  BY Tokens
<1>3. \A m \in Attempt \ {n} : Open(m) => \A x \in Names : disk[x] = Candidate(m) => x = Failed(m)
  BY <1>1, <1>2 DEF Traced
<1>4. Open(n) => \A x \in Names : disk[x] = Candidate(n) => x \in {Failed(n), Public, Staged}
  BY <1>1, <1>2 DEF Traced
<1>5. disk[Public] = Absent => platform = "windows" /\ Open(n) /\ disk[Aside(n)] # Absent
  BY <1>1, <1>2 DEF Recoverable
<1> QED
  BY <1>3, <1>4, <1>5

LEMMA PrepareSettled ==
  ASSUME IInv, NEW n \in Attempt, Work(n), OnlyOwn(n), pc[n] = "prepare", disk'[Public] = disk[Public],
         outcome'[n] # "restored",
         \/ bound' = bound /\ pc'[n] = "reported"
         \/ bound' = [bound EXCEPT ![n] = disk[Public]] /\ disk[Public] \in Files
  PROVE  Settled'
<1> SUFFICES ASSUME NEW m \in Attempt, m # n, outcome'[m] = "restored" PROVE Restored(m)'
  BY DEF Settled
<1>1. outcome[m] = "restored" /\ want'[m] = want[m] /\ overwritten' = overwritten
  BY DEF Work, Others
<1>2. Restored(m)
  BY <1>1, Typed DEF Settled
<1>3. ~ OnDisk(Copy(m))' /\ ~ OnDisk(Candidate(m))'
  BY <1>2, NothingNew DEF Restored
<1>4. bound[n] = Absent
  BY Typed DEF Phase
<1>5. \A i \in Attempt \ {n} : bound'[i] = bound[i]
  BY DEF Work, Others
<1>6. CASE want[m] \in overwritten
  BY <1>1, <1>2, <1>3, <1>6 DEF Restored
<1>7. ASSUME NEW i \in Attempt \ {m}, bound[i] = want[m] PROVE Restored(m)'
  <2>1. i # n
    BY <1>2, <1>4, <1>7 DEF Restored
  <2>2. bound'[i] = want'[m]
    BY <1>1, <1>5, <1>7, <2>1
  <2> QED
    BY <1>1, <1>2, <1>3, <2>2 DEF Restored
<1>8. CASE disk[Public] = want[m] /\ bound' = bound /\ pc'[n] = "reported"
           /\ \A i \in Attempt : pc[i] \notin Past
  <2>1. \A i \in Attempt : pc'[i] \notin Past
    BY <1>8 DEF Work, Others, Past, Deciding, Finishing
  <2> QED
    BY <1>1, <1>2, <1>3, <1>8, <2>1 DEF Restored
<1>9. CASE disk[Public] = want[m] /\ bound' = [bound EXCEPT ![n] = disk[Public]] /\ disk[Public] \in Files
  <2>1. bound'[n] = want'[m]
    BY <1>1, <1>9, Typed DEF Updates
  <2> QED
    BY <1>1, <1>2, <1>3, <2>1 DEF Restored
<1> QED
  BY <1>2, <1>6, <1>7, <1>8, <1>9 DEF Restored

LEMMA CopyFits ==
  ASSUME IInv, NEW n \in Attempt, Work(n), AsOpen, Put(Backup, Copy(n)),
         disk[Backup] = Absent, disk[Staged] = Absent, disk[Public] # Absent
  PROVE  DiskFits' /\ OnlyOwn(n)
<1>1. /\ DiskType' /\ disk'[Backup] = Copy(n)
      /\ \A y \in Names \ {Backup} : disk'[y] = disk[y]
  BY PutDoes, Places, Tokens, Typed
<1>2. Copies'
  BY <1>1, Typed DEF Copies
<1>3. \A m \in Attempt : Open(m) => \A x \in Names : disk[x] = Candidate(m) => x = Failed(m)
  <2>1. \A m \in Attempt : Copy(m) # Absent /\ Candidate(m) # Absent
    BY Tokens
  <2> QED
    BY <2>1, Typed DEF Traced
<1>4. \A m \in Attempt : Copy(n) # Candidate(m)
  BY Tokens
<1>5. Traced'
  BY <1>1, <1>3, <1>4 DEF Traced, AsOpen
<1>6. \A m \in Attempt : Public # Failed(m)
  BY OwnPlaces
<1>7. \A m \in Attempt : disk'[Public] = Candidate(m) => ~ Open(m)'
  BY <1>1, <1>3, <1>6, Places DEF AsOpen
<1>8. disk'[Public] # Absent
  BY <1>1, Places
<1>9. Recoverable'
  BY <1>7, <1>8 DEF Recoverable
<1>10. Cleanups'
  <2>1. disk'[Journal] = disk[Journal]
    BY <1>1, Places
  <2> QED
    BY <2>1, CleanupsKept
<1>11. OnlyOwn(n)
  <2>1. \A m \in Attempt \ {n} : disk'[Aside(m)] = disk[Aside(m)] /\ disk'[Failed(m)] = disk[Failed(m)]
    BY <1>1, OwnPlaces
  <2>2. \A x \in Names : disk'[x] = Copy(n) \/ disk'[x] = disk[x]
    BY <1>1
  <2> QED
    BY <2>1, <2>2 DEF OnlyOwn
<1> QED
  BY <1>1, <1>2, <1>5, <1>9, <1>10, <1>11 DEF DiskFits

LEMMA PrepareBackupKeeps ==
  ASSUME IInv, NEW n \in Attempt, PrepareBackup(n)
  PROVE  IInv'
<1>1. /\ pc[n] = "prepare" /\ pc[n] \in Working
      /\ UNCHANGED <<platform, why, want, completion, lease, clean, overwritten>>
  BY DEF PrepareBackup, Working
<1>2. Unborn(n) /\ Open(n) /\ outcome[n] = "none"
  BY <1>1, Typed DEF Phase
<1>3. AsOpen /\ Open(n)'
  BY <1>1, <1>2, SameCompletion DEF Open
<1>4. CASE Report(n, "refused") /\ UNCHANGED <<bound, disk>> /\ (faults' = faults \/ Fault)
  <2>1. "refused" \in Reports
    BY DEF Reports
  <2>2. Turn(n)
    BY <1>1, <1>4, <2>1 DEF Turn, Report, Goto
  <2>3. Work(n)
    BY <2>2, TurnWorks
  <2>4. pc'[n] = "reported" /\ outcome'[n] = "refused"
    BY <1>4, Typed DEF Report, Updates
  <2>5. OnlyOwn(n) /\ DiskFits'
    BY <1>3, <1>4, <2>3, SameDiskFits
  <2>6. Settled'
    BY <1>1, <1>4, <2>3, <2>4, <2>5, PrepareSettled
  <2>7. Phase(n)'
    BY <2>4, EndFits
  <2> QED
    BY <2>3, <2>5, <2>6, <2>7, WorkKeeps
<1>5. CASE /\ disk[Backup] = Absent /\ disk[Staged] = Absent /\ disk[Public] # Absent
           /\ bound' = [bound EXCEPT ![n] = disk[Public]]
           /\ Put(Backup, Copy(n))
           /\ Goto(n, "stage")
           /\ UNCHANGED <<outcome, faults>>
  <2>1. disk[Public] \in Files
    BY <1>5, Typed, Places DEF DiskType
  <2>2. "stage" \in Past /\ "stage" \in Deciding
    BY DEF Past, Deciding
  <2>3. Turn(n)
    BY <1>1, <1>5, <2>1, <2>2 DEF Turn
  <2>4. Work(n)
    BY <2>3, TurnWorks
  <2>5. pc'[n] = "stage" /\ bound'[n] = disk[Public] /\ outcome'[n] = "none"
    BY <1>2, <1>5, <2>1, Typed DEF Goto, Updates
  <2>6. DiskFits' /\ OnlyOwn(n)
    BY <1>3, <1>5, <2>4, CopyFits
  <2>7. disk'[Backup] = Copy(n) /\ \A y \in Names \ {Backup} : disk'[y] = disk[y]
    BY <1>5, PutDoes, Places, Tokens, Typed
  <2>8. disk'[Public] = disk[Public] /\ disk'[Staged] = Absent
    BY <1>5, <2>7, Places
  <2>9. Settled'
    BY <1>1, <1>5, <2>1, <2>4, <2>5, <2>6, <2>8, PrepareSettled
  <2>10. Unborn(n)'
    <3>1. disk'[Aside(n)] = Absent /\ disk'[Failed(n)] = Absent
      BY <1>2, <2>7, OwnPlaces DEF Unborn
    <3>2. \A x \in Names : disk'[x] # Candidate(n)
      BY <1>2, <2>7, Tokens DEF Unborn, OnDisk
    <3> QED
      BY <3>1, <3>2 DEF Unborn, OnDisk
  <2>11. Phase(n)'
    BY <1>3, <1>5, <2>5, <2>7, <2>8, <2>10 DEF Phase, Deciding, Finishing
  <2> QED
    BY <2>4, <2>6, <2>9, <2>11, WorkKeeps
<1>6. CASE /\ disk[Backup] = Absent /\ disk[Staged] = Absent /\ disk[Public] # Absent
           /\ Put(Backup, Copy(n)) /\ Fault /\ Report(n, "preserved") /\ UNCHANGED bound
  <2>1. "preserved" \in Reports
    BY DEF Reports
  <2>2. Turn(n)
    BY <1>1, <1>6, <2>1 DEF Turn, Report, Goto
  <2>3. Work(n)
    BY <2>2, TurnWorks
  <2>4. pc'[n] = "reported" /\ outcome'[n] = "preserved"
    BY <1>6, <2>1, Typed DEF Report, Updates
  <2>5. DiskFits' /\ OnlyOwn(n)
    BY <1>3, <1>6, <2>3, CopyFits
  <2>6. disk'[Public] = disk[Public]
    BY <1>6, PutDoes, Places, Tokens, Typed
  <2>7. Settled'
    BY <1>1, <1>6, <2>3, <2>4, <2>5, <2>6, PrepareSettled
  <2>8. Phase(n)'
    BY <2>4, EndFits
  <2> QED
    BY <2>3, <2>5, <2>7, <2>8, WorkKeeps
<1> QED
  BY <1>1, <1>4, <1>5, <1>6 DEF PrepareBackup

(* A step that changes the disk and binds nothing.                          *)
LEMMA Changed ==
  ASSUME IInv, NEW n \in Attempt, Turn(n), pc[n] \in Past, bound' = bound,
         DiskFits', OnlyOwn(n), outcome'[n] # "restored", Phase(n)'
  PROVE  IInv'
<1>1. Work(n)
  BY TurnWorks
<1>2. Settled'
  BY <1>1, WorkSettled
<1> QED
  BY <1>1, <1>2, WorkKeeps

LEMMA CandidateFits ==
  ASSUME IInv, NEW n \in Attempt, Work(n), AsOpen, Put(Staged, Candidate(n)),
         disk[Backup] = Copy(n), Unborn(n), disk[Public] # Absent
  PROVE  DiskFits' /\ OnlyOwn(n)
<1>1. /\ DiskType' /\ disk'[Staged] = Candidate(n)
      /\ \A y \in Names \ {Staged} : disk'[y] = disk[y]
  BY PutDoes, Places, Tokens, Typed
<1>2. \A m \in Attempt : Candidate(n) # Copy(m)
  BY Tokens
<1>3. Copies'
  BY <1>1, <1>2, Typed DEF Copies
<1>4. \A m \in Attempt \ {n} : Candidate(n) # Candidate(m) /\ Public # Failed(m)
  BY Tokens, OwnPlaces
<1>5. \A x \in Names : disk[x] # Candidate(n)
  BY DEF Unborn, OnDisk
<1>6. disk'[Backup] = Copy(n) /\ disk'[Public] = disk[Public] /\ disk'[Journal] = disk[Journal]
  BY <1>1, Places
<1>7. Traced'
  <2> SUFFICES ASSUME NEW x \in Names, NEW m \in Attempt, disk'[x] = Candidate(m), Open(m)'
               PROVE  x = Failed(m) \/ (x \in {Public, Staged} /\ disk'[Backup] = Copy(m))
    BY DEF Traced
  <2>1. CASE m = n
    BY <1>1, <1>5, <1>6, <2>1
  <2>2. CASE m # n
    BY <1>1, <1>4, <2>2, Exclusive DEF AsOpen
  <2> QED
    BY <2>1, <2>2
<1>8. Recoverable'
  <2>1. \A m \in Attempt : disk'[Public] = Candidate(m) => ~ Open(m)'
    BY <1>4, <1>5, <1>6, Exclusive, Places DEF AsOpen
  <2> QED
    BY <1>6, <2>1 DEF Recoverable
<1>9. Cleanups'
  BY <1>6, CleanupsKept
<1>10. OnlyOwn(n)
  <2>1. \A m \in Attempt \ {n} : disk'[Aside(m)] = disk[Aside(m)] /\ disk'[Failed(m)] = disk[Failed(m)]
    BY <1>1, OwnPlaces
  <2>2. \A x \in Names : disk'[x] = Candidate(n) \/ disk'[x] = disk[x]
    BY <1>1
  <2> QED
    BY <2>1, <2>2 DEF OnlyOwn
<1> QED
  BY <1>1, <1>3, <1>7, <1>8, <1>9, <1>10 DEF DiskFits

LEMMA StageKeeps ==
  ASSUME IInv, NEW n \in Attempt, Stage(n)
  PROVE  IInv'
<1>1. /\ pc[n] = "stage" /\ pc[n] \in Deciding
      /\ UNCHANGED <<platform, bound, want, completion, outcome, lease, clean, overwritten>>
  BY DEF Stage, Deciding
<1>2. /\ Open(n) /\ disk[Backup] = Copy(n) /\ bound[n] # Absent /\ outcome[n] = "none"
      /\ pc[n] \in Working /\ pc[n] \in Past
  BY <1>1, Undecided
<1>3. Unborn(n) /\ disk[Staged] = Absent /\ disk[Public] # Absent
  BY <1>1, Typed DEF Phase
<1>4. AsOpen /\ Open(n)'
  BY <1>1, <1>2, SameCompletion DEF Open
<1>5. CASE Put(Staged, Candidate(n)) /\ Goto(n, "check") /\ UNCHANGED <<why, faults>>
  <2>1. "check" \in Past
    BY DEF Past, Deciding
  <2>2. Turn(n)
    BY <1>1, <1>2, <1>5, <2>1 DEF Turn
  <2>3. pc'[n] = "check"
    BY <1>5, Typed DEF Goto, Updates
  <2>4. DiskFits' /\ OnlyOwn(n)
    BY <1>2, <1>3, <1>4, <1>5, <2>2, TurnWorks, CandidateFits
  <2>5. /\ disk'[Staged] = Candidate(n)
        /\ \A y \in Names \ {Staged} : disk'[y] = disk[y]
    BY <1>5, PutDoes, Places, Tokens, Typed
  <2>6. disk'[Backup] = Copy(n) /\ disk'[Public] = disk[Public]
    BY <1>2, <2>5, Places
  <2>7. disk[Public] # Candidate(n)
    BY <1>3, Places DEF Unborn, OnDisk
  <2>8. disk'[Aside(n)] = Absent /\ disk'[Failed(n)] = Absent
    BY <1>3, <2>5, OwnPlaces DEF Unborn
  <2>9. Ready(n)'
    BY <1>3, <2>5, <2>6, <2>7, <2>8 DEF Ready
  <2>10. Phase(n)'
    BY <1>1, <1>2, <1>4, <2>3, <2>6, <2>9 DEF Phase, Deciding, Finishing
  <2> QED
    BY <1>1, <1>2, <2>2, <2>4, <2>10, Changed
<1>6. CASE Fault /\ Goto(n, "dropBackup") /\ Because(n, "refused") /\ UNCHANGED disk
  <2>1. "dropBackup" \in Past /\ "dropBackup" \in Deciding /\ "refused" \in Reasons
    BY DEF Past, Deciding, Reasons
  <2>2. Turn(n)
    BY <1>1, <1>2, <1>6, <2>1 DEF Turn
  <2>3. pc'[n] = "dropBackup" /\ why'[n] = "refused"
    BY <1>6, <2>1, Typed DEF Goto, Because, Updates
  <2>4. disk'[Public] \notin {Absent, Candidate(n)}
    BY <1>3, <1>6, Places DEF Unborn, OnDisk
  <2>5. Phase(n)'
    BY <1>1, <1>2, <1>4, <1>6, <2>3, <2>4 DEF Phase, Deciding, Finishing
  <2> QED
    BY <1>1, <1>4, <1>6, <2>1, <2>2, <2>5, WentOn
<1>7. CASE Fault /\ Goto(n, "dropBackup") /\ Because(n, "refused") /\ Put(Staged, Candidate(n))
  <2>1. "dropBackup" \in Past /\ "dropBackup" \in Deciding /\ "refused" \in Reasons
    BY DEF Past, Deciding, Reasons
  <2>2. Turn(n)
    BY <1>1, <1>2, <1>7, <2>1 DEF Turn
  <2>3. pc'[n] = "dropBackup" /\ why'[n] = "refused"
    BY <1>7, <2>1, Typed DEF Goto, Because, Updates
  <2>4. DiskFits' /\ OnlyOwn(n)
    BY <1>2, <1>3, <1>4, <1>7, <2>2, TurnWorks, CandidateFits
  <2>5. disk'[Backup] = Copy(n) /\ disk'[Public] = disk[Public]
    BY <1>2, <1>7, PutDoes, Places, Tokens, Typed
  <2>6. disk'[Public] \notin {Absent, Candidate(n)}
    BY <1>3, <2>5, Places DEF Unborn, OnDisk
  <2>7. Phase(n)'
    BY <1>1, <1>2, <1>4, <2>3, <2>5, <2>6 DEF Phase, Deciding, Finishing
  <2> QED
    BY <1>1, <1>2, <2>2, <2>4, <2>7, Changed
<1> QED
  BY <1>5, <1>6, <1>7 DEF Stage

----------------------------------------------------------------------------
(* Publishing and taking back                                               *)

(* Names that only the update that holds the backup moves files between.    *)
Movable(n) == {Public, Staged, Aside(n), Failed(n)}

LEMMA MoveFits ==
  ASSUME IInv, NEW n \in Attempt, Work(n), AsOpen, DiskType', disk[Backup] = Copy(n), Open(n),
         \A z \in Names \ Movable(n) : disk'[z] = disk[z],
         \A z \in Movable(n) : disk'[z] = Absent \/ \E y \in Movable(n) : disk'[z] = disk[y],
         disk'[Aside(n)] # Candidate(n),
         disk'[Public] = Absent => platform = "windows" /\ disk'[Aside(n)] # Absent,
         disk'[Public] = Candidate(n) => disk'[Displaced(n)] # Absent
  PROVE  DiskFits' /\ OnlyOwn(n)
<1>1. /\ Movable(n) \subseteq Names /\ Backup \in Names \ Movable(n) /\ Journal \in Names \ Movable(n)
  BY Places, OwnPlaces DEF Movable
<1>2. \A m \in Attempt \ {n} : /\ Aside(m) \in Names \ Movable(n) /\ Failed(m) \in Names \ Movable(n)
                               /\ Public # Failed(m)
  BY OwnPlaces DEF Movable
<1>3. disk'[Backup] = Copy(n) /\ disk'[Journal] = disk[Journal]
  BY <1>1
<1>4. Copies'
  <2> SUFFICES ASSUME NEW x \in Names, NEW m \in Attempt, disk'[x] = Copy(m) PROVE x = Backup
    BY DEF Copies
  <2>1. Copy(m) # Absent
    BY Tokens
  <2>2. CASE x \in Movable(n)
    <3>1. PICK y \in Movable(n) : disk[y] = Copy(m)
      BY <2>1, <2>2
    <3> QED
      BY <1>1, <3>1, Typed DEF Copies
  <2>3. CASE x \notin Movable(n)
    BY <2>3, Typed DEF Copies
  <2> QED
    BY <2>2, <2>3
<1>5. \A m \in Attempt \ {n} : Open(m) => \A x \in Names : disk'[x] = Candidate(m) => x = Failed(m)
  <2> SUFFICES ASSUME NEW m \in Attempt \ {n}, Open(m), NEW x \in Names, disk'[x] = Candidate(m)
               PROVE  x = Failed(m)
    OBVIOUS
  <2>1. Candidate(m) # Absent
    BY Tokens
  <2>2. CASE x \in Movable(n)
    <3>1. PICK y \in Movable(n) : disk[y] = Candidate(m)
      BY <2>1, <2>2
    <3>2. y = Failed(m)
      BY <1>1, <3>1, Exclusive
    <3> QED
      BY <1>2, <3>2
  <2>3. CASE x \notin Movable(n)
    BY <2>3, Exclusive
  <2> QED
    BY <2>2, <2>3
<1>6. \A x \in Names : disk'[x] = Candidate(n) => x \in {Failed(n), Public, Staged}
  <2> SUFFICES ASSUME NEW x \in Names, disk'[x] = Candidate(n) PROVE x \in {Failed(n), Public, Staged}
    OBVIOUS
  <2>1. CASE x \in Movable(n)
    BY <2>1 DEF Movable
  <2>2. CASE x \notin Movable(n)
    BY <2>2, Exclusive
  <2> QED
    BY <2>1, <2>2
<1>7. Traced'
  BY <1>3, <1>5, <1>6 DEF Traced, AsOpen
<1>8. Recoverable'
  <2>2. \A m \in Attempt : disk'[Public] = Candidate(m) /\ Open(m)' => m = n
    BY <1>2, <1>5, Places DEF AsOpen
  <2>3. platform' = platform
    BY DEF Work
  <2>4. Displaced(n)' = Displaced(n)
    BY <2>3 DEF Displaced
  <2>5. \A m \in Attempt : disk'[Public] = Candidate(m) /\ Open(m)' => disk'[Displaced(m)'] # Absent
    BY <2>2, <2>4
  <2>6. Open(n)'
    BY DEF AsOpen
  <2> QED
    BY <1>3, <2>3, <2>5, <2>6 DEF Recoverable
<1>9. Cleanups'
  BY <1>3, CleanupsKept
<1>10. OnlyOwn(n)
  <2>1. \A m \in Attempt \ {n} : disk'[Aside(m)] = disk[Aside(m)] /\ disk'[Failed(m)] = disk[Failed(m)]
    BY <1>2
  <2>2. \A x \in Names : disk'[x] = Absent \/ \E y \in Names : disk'[x] = disk[y]
    BY <1>1
  <2> QED
    BY <2>1, <2>2 DEF OnlyOwn
<1> QED
  BY <1>4, <1>7, <1>8, <1>9, <1>10 DEF DiskFits

(* The candidate goes public, by exchange or by replacement.                *)
LEMMA PublishSwaps ==
  ASSUME IInv, NEW n \in Attempt, Turn(n), AsOpen, pc[n] = "publish",
         \/ platform = "unix" /\ Exchange(Staged, Public)
         \/ platform = "windows" /\ Replace(Staged, Aside(n))
  PROVE  DiskFits' /\ OnlyOwn(n) /\ disk'[Backup] = Copy(n) /\ Out(n)'
<1>1. Work(n) /\ platform' = platform
  BY TurnWorks DEF Turn
<1>2. /\ Ready(n) /\ Open(n) /\ disk[Backup] = Copy(n)
  BY Undecided, Typed DEF Phase, Deciding
<1>3. DiskType /\ Backup \in Names \ Movable(n) /\ Movable(n) \subseteq Names
  BY Typed, Places, OwnPlaces DEF Movable
<1>4. /\ Aside(n) # Public /\ Aside(n) # Staged /\ Public # Staged /\ Aside(n) # Failed(n)
      /\ Failed(n) # Public /\ Failed(n) # Staged
      /\ {Aside(n), Failed(n), Public, Staged} \subseteq Names
  BY Places, OwnPlaces
<1>5. Candidate(n) # Absent
  BY Tokens
<1>6. CASE platform = "unix" /\ Exchange(Staged, Public)
  <2>1. /\ DiskType' /\ disk'[Staged] = disk[Public] /\ disk'[Public] = disk[Staged]
        /\ \A z \in Names \ {Staged, Public} : disk'[z] = disk[z]
    BY <1>3, <1>4, <1>6, ExchangeDoes
  <2>2. /\ disk'[Aside(n)] = Absent /\ disk'[Failed(n)] = Absent
        /\ disk'[Public] = Candidate(n) /\ disk'[Staged] \notin {Absent, Candidate(n)}
    BY <1>2, <1>4, <2>1 DEF Ready
  <2>3. \A z \in Names \ Movable(n) : disk'[z] = disk[z]
    BY <2>1 DEF Movable
  <2>4. \A z \in Movable(n) : disk'[z] = Absent \/ \E y \in Movable(n) : disk'[z] = disk[y]
    BY <2>1, <2>2 DEF Movable
  <2>5. Displaced(n) = Staged /\ Displaced(n)' = Staged
    BY <1>1, <1>6 DEF Displaced
  <2>6. DiskFits' /\ OnlyOwn(n)
    BY <1>1, <1>2, <1>5, <2>1, <2>2, <2>3, <2>4, <2>5, MoveFits
  <2>7. Out(n)'
    BY <1>5, <2>2, <2>5 DEF Out
  <2> QED
    BY <1>2, <1>3, <1>6, <2>3, <2>6, <2>7
<1>7. CASE platform = "windows" /\ Replace(Staged, Aside(n))
  <2>1. /\ DiskType' /\ disk'[Aside(n)] = disk[Public] /\ disk'[Public] = disk[Staged]
        /\ disk'[Staged] = Absent
        /\ \A z \in Names \ {Staged, Aside(n), Public} : disk'[z] = disk[z]
    BY <1>3, <1>4, <1>7, ReplaceDoes
  <2>2. /\ disk'[Aside(n)] \notin {Absent, Candidate(n)} /\ disk'[Failed(n)] = Absent
        /\ disk'[Public] = Candidate(n)
    BY <1>2, <1>4, <2>1 DEF Ready
  <2>3. \A z \in Names \ Movable(n) : disk'[z] = disk[z]
    BY <2>1 DEF Movable
  <2>4. \A z \in Movable(n) : disk'[z] = Absent \/ \E y \in Movable(n) : disk'[z] = disk[y]
    BY <2>1, <2>2 DEF Movable
  <2>5. Displaced(n) = Aside(n) /\ Displaced(n)' = Aside(n)
    BY <1>1, <1>7 DEF Displaced
  <2>6. DiskFits' /\ OnlyOwn(n)
    BY <1>1, <1>2, <1>5, <2>1, <2>2, <2>3, <2>4, <2>5, MoveFits
  <2>7. Out(n)'
    BY <1>5, <2>1, <2>2, <2>5 DEF Out
  <2> QED
    BY <1>2, <1>3, <2>3, <2>6, <2>7
<1> QED
  BY <1>6, <1>7

(* Half of it: the public file is aside and nothing is public.              *)
LEMMA PublishHalves ==
  ASSUME IInv, NEW n \in Attempt, Turn(n), AsOpen, pc[n] = "publish", platform = "windows",
         MoveAside(Aside(n))
  PROVE  DiskFits' /\ OnlyOwn(n) /\ disk'[Backup] = Copy(n) /\ Gap(n)'
<1>1. Work(n) /\ platform' = platform
  BY TurnWorks DEF Turn
<1>2. /\ Ready(n) /\ Open(n) /\ disk[Backup] = Copy(n)
  BY Undecided, Typed DEF Phase, Deciding
<1>3. DiskType /\ Backup \in Names \ Movable(n) /\ Movable(n) \subseteq Names
  BY Typed, Places, OwnPlaces DEF Movable
<1>4. /\ Aside(n) # Public /\ Aside(n) # Staged /\ Public # Staged /\ Aside(n) # Failed(n)
      /\ Failed(n) # Public /\ Failed(n) # Staged
      /\ {Aside(n), Failed(n), Public, Staged} \subseteq Names
  BY Places, OwnPlaces
<1>5. Candidate(n) # Absent
  BY Tokens
<1>6. /\ DiskType' /\ disk'[Aside(n)] = disk[Public] /\ disk'[Public] = Absent
      /\ \A z \in Names \ {Aside(n), Public} : disk'[z] = disk[z]
  BY <1>3, <1>4, MoveAsideDoes
<1>7. /\ disk'[Aside(n)] \notin {Absent, Candidate(n)} /\ disk'[Failed(n)] = Absent
      /\ disk'[Staged] = Candidate(n)
  BY <1>2, <1>4, <1>6 DEF Ready
<1>8. \A z \in Names \ Movable(n) : disk'[z] = disk[z]
  BY <1>6 DEF Movable
<1>9. \A z \in Movable(n) : disk'[z] = Absent \/ \E y \in Movable(n) : disk'[z] = disk[y]
  BY <1>4, <1>6, <1>7 DEF Movable
<1>10. Displaced(n) = Aside(n)
  BY DEF Displaced
<1>11. DiskFits' /\ OnlyOwn(n)
  BY <1>1, <1>2, <1>5, <1>6, <1>7, <1>8, <1>9, <1>10, MoveFits
<1>12. Gap(n)'
  BY <1>1, <1>5, <1>6, <1>7 DEF Gap
<1> QED
  BY <1>2, <1>3, <1>8, <1>11, <1>12

LEMMA PublishKeeps ==
  ASSUME IInv, NEW n \in Attempt, Publish(n)
  PROVE  IInv'
<1>1. /\ pc[n] = "publish" /\ pc[n] \in Deciding
      /\ UNCHANGED <<platform, bound, why, want, completion, outcome, lease, clean, overwritten>>
  BY DEF Publish, Deciding
<1>2. /\ Open(n) /\ disk[Backup] = Copy(n) /\ bound[n] # Absent /\ outcome[n] = "none"
      /\ pc[n] \in Working /\ pc[n] \in Past
  BY <1>1, Undecided
<1>3. AsOpen /\ Open(n)'
  BY <1>1, <1>2, SameCompletion DEF Open
<1>4. ASSUME NEW l \in {"classify", "classifyUnconfirmed"}, Goto(n, l),
             faults' = faults \/ Fault
      PROVE  Turn(n) /\ pc'[n] = l /\ l \in Deciding
  <2>1. l \in Past /\ l \in Deciding
    BY DEF Past, Deciding
  <2>2. Turn(n)
    BY <1>1, <1>2, <1>4, <2>1 DEF Turn
  <2>3. pc'[n] = l
    BY <1>4, Typed DEF Goto, Updates
  <2> QED
    BY <2>1, <2>2, <2>3
<1>5. ASSUME NEW l \in {"classify", "classifyUnconfirmed"}, Goto(n, l),
             faults' = faults \/ Fault,
             \/ platform = "unix" /\ Exchange(Staged, Public)
             \/ platform = "windows" /\ Replace(Staged, Aside(n))
             \/ platform = "windows" /\ MoveAside(Aside(n))
      PROVE  IInv'
  <2>1. Turn(n) /\ pc'[n] = l
    BY <1>4, <1>5
  <2>2. DiskFits' /\ OnlyOwn(n) /\ disk'[Backup] = Copy(n)
    BY <1>1, <1>3, <1>5, <2>1, PublishSwaps, PublishHalves
  <2>3. Out(n)' \/ Gap(n)'
    BY <1>1, <1>3, <1>5, <2>1, PublishSwaps, PublishHalves
  <2>4. Phase(n)'
    BY <1>1, <1>2, <1>3, <2>1, <2>2, <2>3 DEF Phase, Deciding, Finishing
  <2> QED
    BY <1>1, <1>2, <2>1, <2>2, <2>4, Changed
<1>6. CASE Fault /\ Goto(n, "classify") /\ UNCHANGED disk
  <2>1. Turn(n) /\ pc'[n] = "classify" /\ "classify" \in Deciding
    BY <1>4, <1>6
  <2>2. Ready(n)'
    BY <1>1, <1>6, OutStays, Typed DEF Phase
  <2>3. Phase(n)'
    BY <1>1, <1>2, <1>3, <1>6, <2>1, <2>2 DEF Phase, Deciding, Finishing
  <2> QED
    BY <1>1, <1>3, <1>6, <2>1, <2>3, WentOn
<1>7. platform \in {"unix", "windows"}
  BY Typed DEF TypeOK
<1> QED
  BY <1>5, <1>6, <1>7 DEF Publish

(* The displaced file goes public again, or nothing is.                     *)
LEMMA TakeBackMoves ==
  ASSUME IInv, NEW n \in Attempt, Turn(n), AsOpen, pc[n] = "swapBack",
         \/ platform = "unix" /\ Exchange(Staged, Public)
         \/ platform = "windows" /\ Replace(Aside(n), Failed(n))
         \/ platform = "windows" /\ MoveAside(Failed(n))
  PROVE  DiskFits' /\ OnlyOwn(n) /\ disk'[Backup] = Copy(n)
<1>1. Work(n) /\ platform' = platform
  BY TurnWorks DEF Turn
<1>2. Out(n) /\ Open(n) /\ disk[Backup] = Copy(n)
  BY Undecided, Typed DEF Phase, Deciding
<1>3. DiskType /\ Backup \in Names \ Movable(n) /\ Movable(n) \subseteq Names
  BY Typed, Places, OwnPlaces DEF Movable
<1>4. /\ Aside(n) # Public /\ Aside(n) # Staged /\ Public # Staged /\ Aside(n) # Failed(n)
      /\ Failed(n) # Public /\ Failed(n) # Staged
      /\ {Aside(n), Failed(n), Public, Staged} \subseteq Names
  BY Places, OwnPlaces
<1>5. Candidate(n) # Absent /\ disk[Aside(n)] # Candidate(n)
  BY <1>2, <1>4, Tokens, Exclusive
<1>6. CASE platform = "unix" /\ Exchange(Staged, Public)
  <2>1. /\ DiskType' /\ disk'[Staged] = disk[Public] /\ disk'[Public] = disk[Staged]
        /\ \A z \in Names \ {Staged, Public} : disk'[z] = disk[z]
    BY <1>3, <1>4, <1>6, ExchangeDoes
  <2>2. disk[Staged] \notin {Absent, Candidate(n)} /\ disk'[Aside(n)] = disk[Aside(n)] /\ disk'[Failed(n)] = disk[Failed(n)]
    BY <1>2, <1>4, <1>6, <2>1 DEF Out, Displaced
  <2>3. \A z \in Names \ Movable(n) : disk'[z] = disk[z]
    BY <2>1 DEF Movable
  <2>4. \A z \in Movable(n) : disk'[z] = Absent \/ \E y \in Movable(n) : disk'[z] = disk[y]
    BY <2>1, <2>2 DEF Movable
  <2>5. DiskFits' /\ OnlyOwn(n)
    BY <1>1, <1>2, <1>5, <2>1, <2>2, <2>3, <2>4, MoveFits
  <2> QED
    BY <1>2, <1>3, <2>3, <2>5
<1>7. CASE platform = "windows" /\ Replace(Aside(n), Failed(n))
  <2>1. /\ DiskType' /\ disk'[Failed(n)] = disk[Public] /\ disk'[Public] = disk[Aside(n)]
        /\ disk'[Aside(n)] = Absent
        /\ \A z \in Names \ {Aside(n), Failed(n), Public} : disk'[z] = disk[z]
    BY <1>3, <1>4, <1>7, ReplaceDoes
  <2>2. disk[Aside(n)] \notin {Absent, Candidate(n)}
    BY <1>2, <1>7 DEF Out, Displaced
  <2>3. \A z \in Names \ Movable(n) : disk'[z] = disk[z]
    BY <2>1 DEF Movable
  <2>4. \A z \in Movable(n) : disk'[z] = Absent \/ \E y \in Movable(n) : disk'[z] = disk[y]
    BY <1>4, <2>1 DEF Movable
  <2>5. DiskFits' /\ OnlyOwn(n)
    BY <1>1, <1>2, <1>5, <2>1, <2>2, <2>3, <2>4, MoveFits
  <2> QED
    BY <1>2, <1>3, <2>3, <2>5
<1>8. CASE platform = "windows" /\ MoveAside(Failed(n))
  <2>1. /\ DiskType' /\ disk'[Failed(n)] = disk[Public] /\ disk'[Public] = Absent
        /\ \A z \in Names \ {Failed(n), Public} : disk'[z] = disk[z]
    BY <1>3, <1>4, <1>8, MoveAsideDoes
  <2>2. disk'[Aside(n)] \notin {Absent, Candidate(n)}
    BY <1>2, <1>4, <1>8, <2>1 DEF Out, Displaced
  <2>3. \A z \in Names \ Movable(n) : disk'[z] = disk[z]
    BY <2>1 DEF Movable
  <2>4. \A z \in Movable(n) : disk'[z] = Absent \/ \E y \in Movable(n) : disk'[z] = disk[y]
    BY <1>4, <2>1 DEF Movable
  <2>5. DiskFits' /\ OnlyOwn(n)
    BY <1>1, <1>2, <1>5, <1>8, <2>1, <2>2, <2>3, <2>4, MoveFits
  <2> QED
    BY <1>2, <1>3, <2>3, <2>5
<1> QED
  BY <1>6, <1>7, <1>8

LEMMA SwapBackKeeps ==
  ASSUME IInv, NEW n \in Attempt, SwapBack(n)
  PROVE  IInv'
<1>1. /\ pc[n] = "swapBack" /\ pc[n] \in Deciding
      /\ UNCHANGED <<platform, bound, why, want, completion, outcome, lease, clean, overwritten>>
  BY DEF SwapBack, Deciding
<1>2. /\ Open(n) /\ disk[Backup] = Copy(n) /\ bound[n] # Absent /\ outcome[n] = "none"
      /\ pc[n] \in Working /\ pc[n] \in Past
  BY <1>1, Undecided
<1>3. AsOpen /\ Open(n)'
  BY <1>1, <1>2, SameCompletion DEF Open
<1>4. want'[n] \notin {Absent, Candidate(n)}
  BY <1>1, Typed DEF Phase, Out
<1>5. ASSUME NEW l \in {"verify", "verifyUnconfirmed"}, Goto(n, l), faults' = faults \/ Fault
      PROVE  Turn(n) /\ pc'[n] = l /\ l \in Deciding
  <2>1. l \in Past /\ l \in Deciding
    BY DEF Past, Deciding
  <2>2. Turn(n)
    BY <1>1, <1>2, <1>5, <2>1 DEF Turn
  <2>3. pc'[n] = l
    BY <1>5, Typed DEF Goto, Updates
  <2> QED
    BY <2>1, <2>2, <2>3
<1>6. ASSUME NEW l \in {"verify", "verifyUnconfirmed"}, Goto(n, l), faults' = faults \/ Fault,
             \/ platform = "unix" /\ Exchange(Staged, Public)
             \/ platform = "windows" /\ Replace(Aside(n), Failed(n))
             \/ platform = "windows" /\ MoveAside(Failed(n))
      PROVE  IInv'
  <2>1. Turn(n) /\ pc'[n] = l
    BY <1>5, <1>6
  <2>2. DiskFits' /\ OnlyOwn(n) /\ disk'[Backup] = Copy(n)
    BY <1>1, <1>3, <1>6, <2>1, TakeBackMoves
  <2>3. Phase(n)'
    BY <1>1, <1>2, <1>3, <1>4, <2>1, <2>2 DEF Phase, Deciding, Finishing
  <2> QED
    BY <1>1, <1>2, <2>1, <2>2, <2>3, Changed
<1>7. CASE Fault /\ Goto(n, "verifyUnconfirmed") /\ UNCHANGED disk
  <2>1. Turn(n) /\ pc'[n] = "verifyUnconfirmed" /\ "verifyUnconfirmed" \in Deciding
    BY <1>5, <1>7
  <2>2. Phase(n)'
    BY <1>1, <1>2, <1>3, <1>4, <1>7, <2>1 DEF Phase, Deciding, Finishing
  <2> QED
    BY <1>1, <1>3, <1>7, <2>1, <2>2, WentOn
<1>8. platform \in {"unix", "windows"}
  BY Typed DEF TypeOK
<1> QED
  BY <1>6, <1>7, <1>8 DEF SwapBack

LEMMA FillEmptyKeeps ==
  ASSUME IInv, NEW n \in Attempt, FillEmpty(n)
  PROVE  IInv'
<1>1. /\ pc[n] = "fillEmpty" /\ pc[n] \in Deciding
      /\ UNCHANGED <<platform, bound, why, want, completion, lease, clean, overwritten>>
  BY DEF FillEmpty, Deciding
<1>2. /\ Open(n) /\ disk[Backup] = Copy(n) /\ bound[n] # Absent /\ outcome[n] = "none"
      /\ pc[n] \in Working /\ pc[n] \in Past
  BY <1>1, Undecided
<1>3. AsOpen /\ Open(n)'
  BY <1>1, <1>2, SameCompletion DEF Open
<1>4. want[n] \notin {Absent, Candidate(n)} /\ disk[Aside(n)] = want[n]
  BY <1>1, Typed DEF Phase
<1>5. "preserved" \in Reports /\ "dropCandidate" \in Past
  BY DEF Reports, Past, Deciding
<1>6. CASE /\ disk' = [disk EXCEPT ![Public] = disk[Aside(n)], ![Aside(n)] = Absent]
           /\ disk[Public] = Absent
           /\ \/ Goto(n, "dropCandidate") /\ UNCHANGED <<outcome, faults>>
              \/ Fault /\ Report(n, "preserved")
  <2>1. Turn(n)
    BY <1>1, <1>2, <1>5, <1>6 DEF Turn, Report, Goto
  <2>2. /\ Aside(n) # Public /\ Aside(n) # Staged /\ Public # Staged /\ Aside(n) # Failed(n)
        /\ Failed(n) # Public /\ Failed(n) # Staged
        /\ {Aside(n), Failed(n), Public, Staged, Backup} \subseteq Names
        /\ Backup \notin Movable(n)
    BY Places, OwnPlaces DEF Movable
  <2>3. disk[Aside(n)] \in Files \cup {Absent} /\ DiskType
    BY <2>2, Typed DEF DiskType
  <2>4. /\ disk'[Public] = want[n] /\ disk'[Aside(n)] = Absent
        /\ \A z \in Names \ {Aside(n), Public} : disk'[z] = disk[z]
    BY <1>4, <1>6, <2>2, <2>3 DEF DiskType
  <2>5. DiskType'
    BY <1>6, <2>3 DEF DiskType
  <2>6. \A z \in Names \ Movable(n) : disk'[z] = disk[z]
    BY <2>4 DEF Movable
  <2>7. \A z \in Movable(n) : disk'[z] = Absent \/ \E y \in Movable(n) : disk'[z] = disk[y]
    BY <1>4, <2>2, <2>4 DEF Movable
  <2>8. Candidate(n) # Absent
    BY Tokens
  <2>9. DiskFits' /\ OnlyOwn(n)
    BY <1>2, <1>3, <1>4, <2>1, <2>4, <2>5, <2>6, <2>7, <2>8, MoveFits, TurnWorks
  <2>10. CASE Goto(n, "dropCandidate") /\ UNCHANGED outcome
    <3>1. pc'[n] = "dropCandidate"
      BY <2>10, Typed DEF Goto, Updates
    <3>2. disk'[Backup] = Copy(n)
      BY <1>2, <2>2, <2>6
    <3>3. disk'[Public] \notin {Absent, Candidate(n)} /\ want'[n] # Absent /\ Back(n)'
      BY <1>1, <1>4, <2>4 DEF Back
    <3>4. Phase(n)'
      BY <1>1, <1>2, <1>3, <2>10, <3>1, <3>2, <3>3 DEF Phase, Deciding, Finishing
    <3> QED
      BY <1>1, <1>2, <2>1, <2>9, <2>10, <3>4, Changed
  <2>11. CASE Report(n, "preserved")
    <3>1. pc'[n] = "reported" /\ outcome'[n] = "preserved"
      BY <1>5, <2>11, Typed DEF Report, Updates
    <3> QED
      BY <1>1, <1>2, <2>1, <2>9, <3>1, Changed, EndFits
  <2> QED
    BY <1>6, <2>10, <2>11
<1>7. CASE Report(n, "preserved") /\ UNCHANGED disk /\ (faults' = faults \/ Fault)
  BY <1>1, <1>2, <1>5, <1>7, LeftAsIs
<1> QED
  BY <1>6, <1>7 DEF FillEmpty

----------------------------------------------------------------------------
(* Removing and committing                                                  *)

LEMMA DropCandidateKeeps ==
  ASSUME IInv, NEW n \in Attempt, DropCandidate(n)
  PROVE  IInv'
<1>1. /\ pc[n] = "dropCandidate" /\ pc[n] \in Deciding
      /\ UNCHANGED <<platform, bound, why, want, completion, lease, clean, overwritten>>
  BY DEF DropCandidate, Deciding
<1>2. /\ Open(n) /\ disk[Backup] = Copy(n) /\ bound[n] # Absent /\ outcome[n] = "none"
      /\ pc[n] \in Working /\ pc[n] \in Past
  BY <1>1, Undecided
<1>3. AsOpen /\ Open(n)'
  BY <1>1, <1>2, SameCompletion DEF Open
<1>4. /\ disk[Public] \notin {Absent, Candidate(n)}
      /\ why[n] # "refused" => want[n] # Absent /\ Back(n)
  BY <1>1, Typed DEF Phase
<1>5. "preserved" \in Reports /\ "dropBackup" \in Past /\ "dropBackup" \in Deciding
  BY DEF Reports, Past, Deciding
<1>6. CASE Goto(n, "dropBackup") /\ UNCHANGED outcome
           /\ (disk' = disk \/ Put(Unused(n), Absent)) /\ (faults' = faults \/ Fault)
  <2>1. Turn(n)
    BY <1>1, <1>2, <1>5, <1>6 DEF Turn
  <2>2. pc'[n] = "dropBackup"
    BY <1>5, <1>6, Typed DEF Goto, Updates
  <2>3. /\ Aside(n) # Public /\ Aside(n) # Staged /\ Public # Staged /\ Aside(n) # Failed(n)
        /\ Failed(n) # Public /\ Failed(n) # Staged
        /\ {Aside(n), Failed(n), Public, Staged, Backup} \subseteq Names
        /\ Backup \notin Movable(n)
    BY Places, OwnPlaces DEF Movable
  <2>4. Unused(n) \in {Failed(n), Staged}
    BY DEF Unused
  <2>5. DiskType /\ Absent \in Files \cup {Absent}
    BY Typed
  <2>6. DiskFits' /\ OnlyOwn(n) /\ disk'[Backup] = Copy(n) /\ disk'[Public] = disk[Public]
    <3>1. CASE disk' = disk
      BY <1>2, <1>3, <2>1, <3>1, SameDiskFits, TurnWorks
    <3>2. CASE Put(Unused(n), Absent)
      <4>1. DiskType' /\ disk'[Unused(n)] = Absent /\ \A y \in Names \ {Unused(n)} : disk'[y] = disk[y]
        BY <2>3, <2>4, <2>5, <3>2, PutDoes
      <4>2. \A z \in Names \ Movable(n) : disk'[z] = disk[z]
        BY <2>4, <4>1 DEF Movable
      <4>3. \A z \in Movable(n) : disk'[z] = Absent \/ disk'[z] = disk[z]
        BY <2>3, <4>1 DEF Movable
      <4>4. disk'[Public] = disk[Public] /\ disk'[Aside(n)] = disk[Aside(n)]
        BY <2>3, <2>4, <4>1
      <4>5. disk[Aside(n)] # Candidate(n)
        BY <1>2, <2>3, Exclusive
      <4>6. DiskFits' /\ OnlyOwn(n)
        BY <1>2, <1>3, <1>4, <2>1, <4>1, <4>2, <4>3, <4>4, <4>5, MoveFits, TurnWorks
      <4> QED
        BY <1>2, <2>3, <4>2, <4>4, <4>6
    <3> QED
      BY <1>6, <3>1, <3>2
  <2>7. Back(n) => Back(n)'
    BY <1>1, <2>6 DEF Back
  <2>8. Phase(n)'
    BY <1>1, <1>2, <1>3, <1>4, <1>6, <2>2, <2>6, <2>7 DEF Phase, Deciding, Finishing
  <2> QED
    BY <1>1, <1>2, <1>6, <2>1, <2>6, <2>8, Changed
<1>7. CASE Report(n, "preserved") /\ UNCHANGED disk /\ Fault
  BY <1>1, <1>2, <1>5, <1>7, LeftAsIs
<1> QED
  BY <1>6, <1>7 DEF DropCandidate

(* The backup goes: of an update that ended, or whose candidate is not      *)
(* public.                                                                  *)
LEMMA BackupGone ==
  ASSUME IInv, NEW n \in Attempt, disk[Backup] = Copy(n), Put(Backup, Absent),
         platform' = platform, AsOpen,
         Open(n) => disk[Public] \notin {Absent, Candidate(n)}
  PROVE  /\ DiskType' /\ Copies' /\ Traced' /\ Recoverable'
         /\ disk'[Backup] = Absent /\ \A y \in Names \ {Backup} : disk'[y] = disk[y]
<1>1. /\ DiskType' /\ disk'[Backup] = Absent /\ \A y \in Names \ {Backup} : disk'[y] = disk[y]
  BY PutDoes, Places, Typed
<1>2. Absent \notin {Copy(m) : m \in Attempt} /\ Absent \notin {Candidate(m) : m \in Attempt}
  BY Tokens
<1>3. Copies'
  BY <1>1, Typed DEF Copies
<1>4. disk'[Public] = disk[Public] /\ disk[Public] # Absent
  BY <1>1, Exclusive, Places
<1>5. \A m \in Attempt, x \in Names : disk'[x] = Candidate(m) => disk[x] = Candidate(m)
  BY <1>1, <1>2
<1>6. ASSUME NEW m \in Attempt, NEW x \in Names, disk'[x] = Candidate(m), Open(m)
      PROVE  x \in {Failed(m), Staged}
  <2>1. CASE m = n
    BY <1>4, <1>5, <1>6, <2>1, Exclusive
  <2>2. CASE m # n
    BY <1>5, <1>6, <2>2, Exclusive
  <2> QED
    BY <2>1, <2>2
<1>7. Traced'
  BY <1>1, <1>6 DEF Traced, AsOpen
<1>8. \A m \in Attempt : Public # Failed(m) /\ Public # Staged
  BY Places, OwnPlaces
<1>9. \A m \in Attempt : disk'[Public] = Candidate(m) => ~ Open(m)'
  BY <1>6, <1>8, Places DEF AsOpen
<1>10. Recoverable'
  BY <1>4, <1>9 DEF Recoverable
<1> QED
  BY <1>1, <1>3, <1>7, <1>10

LEMMA BackupGoneFits ==
  ASSUME IInv, NEW n \in Attempt, disk[Backup] = Copy(n), Put(Backup, Absent),
         Work(n), AsOpen, Open(n) => disk[Public] \notin {Absent, Candidate(n)}
  PROVE  DiskFits' /\ OnlyOwn(n)
<1>1. /\ DiskType' /\ Copies' /\ Traced' /\ Recoverable'
      /\ disk'[Backup] = Absent /\ \A y \in Names \ {Backup} : disk'[y] = disk[y]
  BY BackupGone DEF Work
<1>2. Cleanups'
  <2>1. disk'[Journal] = disk[Journal]
    BY <1>1, Places
  <2> QED
    BY <2>1, CleanupsKept
<1>3. OnlyOwn(n)
  <2>1. \A m \in Attempt \ {n} : disk'[Aside(m)] = disk[Aside(m)] /\ disk'[Failed(m)] = disk[Failed(m)]
    BY <1>1, OwnPlaces
  <2>2. \A x \in Names : disk'[x] = Absent \/ disk'[x] = disk[x]
    BY <1>1
  <2> QED
    BY <2>1, <2>2 DEF OnlyOwn
<1> QED
  BY <1>1, <1>2, <1>3 DEF DiskFits

LEMMA DropBackupKeeps ==
  ASSUME IInv, NEW n \in Attempt, DropBackup(n)
  PROVE  IInv'
<1>1. /\ pc[n] = "dropBackup" /\ pc[n] \in Deciding
      /\ UNCHANGED <<platform, bound, why, want, completion, lease, clean, overwritten>>
  BY DEF DropBackup, Deciding
<1>2. /\ Open(n) /\ disk[Backup] = Copy(n) /\ bound[n] # Absent /\ outcome[n] = "none"
      /\ pc[n] \in Working /\ pc[n] \in Past
  BY <1>1, Undecided
<1>3. AsOpen /\ Open(n)'
  BY <1>1, <1>2, SameCompletion DEF Open
<1>4. /\ disk[Public] \notin {Absent, Candidate(n)}
      /\ why[n] # "refused" => want[n] # Absent /\ Back(n)
  BY <1>1, Typed DEF Phase
<1>5. ASSUME NEW o \in {"preserved", "refused", "restored"}, Report(n, o), Put(Backup, Absent),
             UNCHANGED faults, o = "restored" => ~ OnDisk(Candidate(n)) /\ why[n] # "refused"
      PROVE  IInv'
  <2>1. o \in Reports
    BY DEF Reports
  <2>2. Turn(n)
    BY <1>1, <1>2, <1>5, <2>1 DEF Turn, Report, Goto
  <2>3. Work(n)
    BY <2>2, TurnWorks
  <2>4. pc'[n] = "reported" /\ outcome'[n] = o
    BY <1>5, <2>1, Typed DEF Report, Updates
  <2>5. DiskFits' /\ OnlyOwn(n)
    BY <1>2, <1>3, <1>4, <1>5, <2>3, BackupGoneFits
  <2>6. disk'[Backup] = Absent /\ \A y \in Names \ {Backup} : disk'[y] = disk[y]
    BY <1>5, PutDoes, Places, Typed
  <2>7. ASSUME o = "restored" PROVE Restored(n)'
    <3>1. ~ OnDisk(Copy(n))'
      <4>1. \A x \in Names \ {Backup} : disk[x] # Copy(n)
        BY Typed DEF Copies
      <4> QED
        BY <2>6, <4>1, Tokens DEF OnDisk
    <3>2. ~ OnDisk(Candidate(n))'
      <4>1. \A x \in Names : disk[x] # Candidate(n)
        BY <1>5, <2>7 DEF OnDisk
      <4> QED
        BY <2>6, <4>1, Tokens DEF OnDisk
    <3>3. want'[n] # Absent /\ (disk[Public] = want'[n] \/ want'[n] \in overwritten')
      BY <1>1, <1>4, <1>5, <2>7 DEF Back
    <3>4. disk'[Public] = disk[Public]
      BY <2>6, Places
    <3>5. \A m \in Attempt : pc'[m] \notin Past
      BY <1>2, <2>3, <2>4, Alone DEF Work, Others, Past, Deciding, Finishing
    <3> QED
      BY <3>1, <3>2, <3>3, <3>4, <3>5 DEF Restored
  <2>8. Settled'
    BY <1>1, <1>2, <2>3, <2>4, <2>5, <2>7, WorkSettled
  <2>9. Phase(n)'
    BY <2>4, EndFits
  <2> QED
    BY <2>3, <2>5, <2>8, <2>9, WorkKeeps
<1>6. CASE Fault /\ UNCHANGED disk /\ Report(n, "preserved")
  <2>1. "preserved" \in Reports
    BY DEF Reports
  <2> QED
    BY <1>1, <1>2, <1>6, <2>1, LeftAsIs
<1>7. CASE /\ Put(Backup, Absent)
           /\ Report(n, IF OnDisk(Candidate(n)) THEN "preserved"
                        ELSE IF why[n] = "refused" THEN "refused" ELSE "restored")
           /\ UNCHANGED faults
  <2>1. CASE OnDisk(Candidate(n))
    BY <1>5, <1>7, <2>1
  <2>2. CASE ~ OnDisk(Candidate(n)) /\ why[n] = "refused"
    BY <1>5, <1>7, <2>2
  <2>3. CASE ~ OnDisk(Candidate(n)) /\ why[n] # "refused"
    BY <1>5, <1>7, <2>3
  <2> QED
    BY <2>1, <2>2, <2>3
<1> QED
  BY <1>6, <1>7 DEF DropBackup

(* A commit ends the transaction of one update.                             *)
LEMMA Committed ==
  ASSUME IInv, NEW n \in Attempt, completion' = [completion EXCEPT ![n] = "committed"]
  PROVE  /\ ~ Open(n)'
         /\ \A m \in Attempt \ {n} : Open(m)' <=> Open(m)
         /\ \A m \in Attempt : Open(m)' => Open(m) /\ m # n
<1>1. completion'[n] = "committed" /\ \A m \in Attempt \ {n} : completion'[m] = completion[m]
  BY Typed DEF Updates
<1> QED
  BY <1>1 DEF Open

LEMMA CommitFits ==
  ASSUME IInv, NEW n \in Attempt, Work(n), pc[n] = "pending",
         completion' = [completion EXCEPT ![n] = "committed"], clean' = clean,
         disk[Public] = Candidate(n),
         disk' = disk \/ Put(Journal, Record(n))
  PROVE  DiskFits' /\ OnlyOwn(n) /\ \A x \in Names \ {Journal} : disk'[x] = disk[x]
<1>1. disk[Backup] = Copy(n)
  BY Undecided DEF Deciding
<1>2. /\ DiskType' /\ \A x \in Names \ {Journal} : disk'[x] = disk[x]
      /\ disk'[Journal] \in {disk[Journal], Record(n)}
  <2>1. CASE disk' = disk
    BY <2>1, Typed DEF DiskType
  <2>2. CASE Put(Journal, Record(n))
    BY <2>2, PutDoes, Places, Tokens, Typed
  <2> QED
    BY <2>1, <2>2
<1>3. /\ ~ Open(n)'
      /\ \A m \in Attempt \ {n} : Open(m)' <=> Open(m)
      /\ \A m \in Attempt : Open(m)' => Open(m) /\ m # n
  BY Committed
<1>4. \A m \in Attempt : Record(n) # Copy(m) /\ Record(n) # Candidate(m)
  BY Tokens
<1>5. disk'[Public] = Candidate(n) /\ disk'[Backup] = disk[Backup]
  BY <1>2, Places
<1>6. Copies'
  BY <1>2, <1>4, Typed DEF Copies
<1>7. Traced'
  <2> SUFFICES ASSUME NEW x \in Names, NEW m \in Attempt, disk'[x] = Candidate(m), Open(m)'
               PROVE  x = Failed(m)
    BY DEF Traced
  <2>1. Open(m) /\ m # n /\ disk[x] = Candidate(m)
    BY <1>2, <1>3, <1>4
  <2> QED
    BY <1>1, <2>1, Exclusive
<1>8. Recoverable'
  <2>1. \A m \in Attempt \ {n} : Candidate(m) # Candidate(n) /\ Candidate(n) # Absent
    BY Tokens
  <2>2. Candidate(n) # Absent
    BY Tokens
  <2> QED
    BY <1>3, <1>5, <2>1, <2>2 DEF Recoverable
<1>9. Cleanups'
  <2>1. \A m \in Attempt : disk'[Journal] = Record(m) => ~ Open(m)'
    BY <1>2, <1>3, Tokens, Typed DEF Cleanups
  <2>2. ASSUME NEW c \in Cleaners, clean'[c].at \in Removing
        PROVE  clean'[c].of \in Attempt /\ completion'[clean'[c].of] = "committed"
    <3>1. clean'[c].of \in Attempt /\ ~ Open(clean'[c].of)
      BY <2>2, Typed DEF Cleanups
    <3> QED
      BY <3>1, Typed DEF Open, Updates
  <2> QED
    BY <2>1, <2>2 DEF Cleanups, Open
<1>10. OnlyOwn(n)
  <2>1. \A m \in Attempt : Aside(m) \in Names \ {Journal} /\ Failed(m) \in Names \ {Journal}
    BY OwnPlaces
  <2>2. \A m \in Attempt : disk'[Aside(m)] = disk[Aside(m)] /\ disk'[Failed(m)] = disk[Failed(m)]
    BY <1>2, <2>1
  <2>3. \A x \in Names : disk'[x] = Record(n) \/ disk'[x] = disk[x]
    BY <1>2
  <2> QED
    BY <2>2, <2>3 DEF OnlyOwn
<1> QED
  BY <1>2, <1>6, <1>7, <1>8, <1>9, <1>10 DEF DiskFits

(* A journal that was not written to its end is no record.                  *)
LEMMA TornFits ==
  ASSUME IInv, NEW n \in Attempt, Work(n), Put(Journal, Torn), completion' = completion
  PROVE  DiskFits' /\ OnlyOwn(n)
<1>1. AsOpen
  BY SameCompletion
<1>2. Torn \in Files /\ \A m \in Attempt : Torn \notin {Absent, Copy(m), Candidate(m), Record(m)}
  BY Tokens DEF Files
<1>3. DiskType' /\ disk'[Journal] = Torn /\ \A x \in Names \ {Journal} : disk'[x] = disk[x]
  BY <1>2, PutDoes, Places, Typed
<1>4. /\ disk'[Public] = disk[Public] /\ disk'[Backup] = disk[Backup] /\ disk'[Staged] = disk[Staged]
      /\ \A m \in Attempt : disk'[Aside(m)] = disk[Aside(m)] /\ disk'[Failed(m)] = disk[Failed(m)]
  BY <1>3, Places, OwnPlaces
<1>5. Copies'
  BY <1>2, <1>3, Typed DEF Copies
<1>6. Traced'
  BY <1>1, <1>2, <1>3, <1>4, Typed DEF Traced, AsOpen
<1>7. Recoverable'
  <2>1. platform' = platform
    BY DEF Work
  <2>2. \A m \in Attempt : Displaced(m)' = Displaced(m) /\ disk'[Displaced(m)] = disk[Displaced(m)]
    BY <1>4, <2>1 DEF Displaced
  <2>3. \A m \in Attempt : disk'[Public] = Candidate(m) /\ Open(m)' => disk'[Displaced(m)'] # Absent
    BY <1>1, <1>4, <2>2, Typed DEF Recoverable, AsOpen
  <2>4. disk'[Public] = Absent =>
          /\ platform' = "windows"
          /\ \E m \in Attempt : Open(m)' /\ disk'[Aside(m)] # Absent /\ disk'[Backup] = Copy(m)
    BY <1>1, <1>4, <2>1, Typed DEF Recoverable, AsOpen
  <2> QED
    BY <2>3, <2>4 DEF Recoverable
<1>8. Cleanups'
  BY <1>1, <1>2, <1>3, CleanupsKept
<1>9. OnlyOwn(n)
  <2>1. \A x \in Names : disk'[x] = Torn \/ disk'[x] = disk[x]
    BY <1>3
  <2> QED
    BY <1>4, <2>1 DEF OnlyOwn
<1> QED
  BY <1>3, <1>5, <1>6, <1>7, <1>8, <1>9 DEF DiskFits

LEMMA CommitKeeps ==
  ASSUME IInv, NEW n \in Attempt, Commit(n)
  PROVE  IInv'
<1>1. /\ pc[n] = "pending" /\ pc[n] \in Deciding
      /\ UNCHANGED <<platform, bound, why, want, lease, clean, overwritten>>
  BY DEF Commit, Deciding
<1>2. /\ Open(n) /\ disk[Backup] = Copy(n) /\ bound[n] # Absent /\ outcome[n] = "none"
      /\ pc[n] \in Working /\ pc[n] \in Past
  BY <1>1, Undecided
<1>3. "preserved" \in Reports /\ "committed" \in Decided
  BY DEF Reports, Decided
<1>4. ASSUME NEW l \in {"dropDisplaced", "dropCopy"}, Goto(n, l), UNCHANGED outcome,
             disk[Public] = Candidate(n), UNCHANGED faults,
             completion' = [completion EXCEPT ![n] = "committed"],
             disk' = disk \/ Put(Journal, Record(n))
      PROVE  IInv'
  <2>1. l \in Past /\ l \notin Deciding
    BY DEF Past, Finishing, Deciding
  <2>2. Turn(n)
    BY <1>1, <1>2, <1>3, <1>4, <2>1 DEF Turn
  <2>3. Work(n)
    BY <2>2, TurnWorks
  <2>4. DiskFits' /\ OnlyOwn(n) /\ \A x \in Names \ {Journal} : disk'[x] = disk[x]
    BY <1>1, <1>4, <2>3, CommitFits
  <2>5. disk'[Backup] = Copy(n)
    BY <1>2, <2>4, Places
  <2>6. pc'[n] = l
    BY <1>4, Typed DEF Goto, Updates
  <2>7. ~ Open(n)'
    BY <1>4, Committed
  <2>8. Phase(n)'
    BY <1>2, <1>4, <2>1, <2>5, <2>6, <2>7 DEF Phase, Deciding, Finishing
  <2> QED
    BY <1>1, <1>2, <1>4, <2>2, <2>4, <2>8, Changed
<1>5. CASE Report(n, "preserved") /\ UNCHANGED <<disk, completion>> /\ (faults' = faults \/ Fault)
  BY <1>1, <1>2, <1>3, <1>5, LeftAsIs
<1>6. CASE Report(n, "preserved") /\ Put(Journal, Torn) /\ UNCHANGED completion /\ Fault
  <2>1. Turn(n)
    BY <1>1, <1>2, <1>3, <1>6 DEF Turn, Report, Goto
  <2>2. Work(n)
    BY <2>1, TurnWorks
  <2>3. pc'[n] = "reported" /\ outcome'[n] = "preserved"
    BY <1>3, <1>6, Typed DEF Report, Updates
  <2>4. DiskFits' /\ OnlyOwn(n)
    BY <1>1, <1>2, <1>6, <2>2, TornFits
  <2>5. Phase(n)'
    BY <2>3, EndFits
  <2> QED
    BY <1>1, <1>2, <2>1, <2>3, <2>4, <2>5, Changed
<1> QED
  BY <1>4, <1>5, <1>6 DEF Commit

(* What holds of an update wherever it finishes.                            *)
LEMMA Finished ==
  ASSUME IInv, NEW n \in Attempt, pc[n] \in Finishing
  PROVE  /\ pc[n] \in Past /\ pc[n] \in Working /\ pc[n] \notin Deciding
         /\ ~ Open(n) /\ outcome[n] = "none"
<1>1. pc[n] \in Past /\ pc[n] \in Working /\ pc[n] \notin {"reported", "gone"} /\ pc[n] \notin Deciding
  BY DEF Past, Working, Finishing, Deciding
<1> QED
  BY <1>1, Typed DEF Phase

LEMMA DropDisplacedKeeps ==
  ASSUME IInv, NEW n \in Attempt, DropDisplaced(n)
  PROVE  IInv'
<1>1. /\ pc[n] = "dropDisplaced" /\ pc[n] \in Finishing
      /\ UNCHANGED <<platform, bound, why, want, completion, lease, clean, overwritten>>
  BY DEF DropDisplaced, Finishing
<1>2. pc[n] \in Working /\ pc[n] \in Past /\ ~ Open(n) /\ outcome[n] = "none"
  BY <1>1, Finished
<1>3. AsOpen /\ ~ Open(n)'
  BY <1>1, <1>2, SameCompletion DEF Open
<1>4. disk[Backup] = Copy(n)
  BY <1>1, Typed DEF Phase
<1>5. CASE Put(Staged, Absent) /\ Goto(n, "dropCopy") /\ UNCHANGED <<outcome, faults>>
  <2>1. "dropCopy" \in Past /\ "dropCopy" \notin Deciding
    BY DEF Past, Finishing, Deciding
  <2>2. Turn(n)
    BY <1>1, <1>2, <1>5, <2>1 DEF Turn
  <2>3. Work(n)
    BY <2>2, TurnWorks
  <2>4. DiskType' /\ disk'[Staged] = Absent /\ \A y \in Names \ {Staged} : disk'[y] = disk[y]
    BY <1>5, PutDoes, Places, Typed
  <2>5. /\ disk'[Public] = disk[Public] /\ disk'[Backup] = disk[Backup]
        /\ disk'[Journal] = disk[Journal]
    BY <2>4, Places
  <2>6. \A m \in Attempt : Absent # Copy(m) /\ Absent # Candidate(m)
    BY Tokens
  <2>7. Copies'
    BY <2>4, <2>6, Typed DEF Copies
  <2>8. \A m \in Attempt : Open(m)' => Open(m) /\ m # n
    BY <1>3 DEF AsOpen
  <2>9. Traced'
    BY <1>4, <2>4, <2>6, <2>8, Exclusive DEF Traced
  <2>10. Recoverable'
    <3>1. disk[Public] # Absent
      BY <1>2, <1>4, Exclusive
    <3>2. \A m \in Attempt : Public # Failed(m)
      BY OwnPlaces
    <3>3. \A m \in Attempt : disk[Public] = Candidate(m) /\ Open(m) => m = n
      BY <1>4, <3>2, Exclusive, Places
    <3> QED
      BY <2>5, <2>8, <3>1, <3>3 DEF Recoverable
  <2>11. Cleanups'
    BY <1>3, <2>3, <2>5, CleanupsKept
  <2>12. DiskFits'
    BY <2>4, <2>7, <2>9, <2>10, <2>11 DEF DiskFits
  <2>13. OnlyOwn(n)
    <3>1. \A m \in Attempt \ {n} : disk'[Aside(m)] = disk[Aside(m)] /\ disk'[Failed(m)] = disk[Failed(m)]
      BY <2>4, OwnPlaces
    <3>2. \A x \in Names : disk'[x] = Absent \/ disk'[x] = disk[x]
      BY <2>4
    <3> QED
      BY <3>1, <3>2 DEF OnlyOwn
  <2>14. pc'[n] = "dropCopy"
    BY <1>5, Typed DEF Goto, Updates
  <2>15. Phase(n)'
    BY <1>2, <1>3, <1>5, <2>1, <2>14 DEF Phase, Deciding, Finishing
  <2> QED
    BY <1>1, <1>2, <1>5, <2>2, <2>12, <2>13, <2>15, Changed
<1>6. CASE Fault /\ Report(n, "preserved") /\ UNCHANGED disk
  <2>1. "preserved" \in Reports
    BY DEF Reports
  <2> QED
    BY <1>1, <1>2, <1>6, <2>1, LeftAsIs
<1> QED
  BY <1>5, <1>6 DEF DropDisplaced

LEMMA DropCopyKeeps ==
  ASSUME IInv, NEW n \in Attempt, DropCopy(n)
  PROVE  IInv'
<1>1. /\ pc[n] = "dropCopy" /\ pc[n] \in Finishing
      /\ UNCHANGED <<platform, bound, why, want, completion, lease, clean, overwritten>>
  BY DEF DropCopy, Finishing
<1>2. pc[n] \in Working /\ pc[n] \in Past /\ ~ Open(n) /\ outcome[n] = "none"
  BY <1>1, Finished
<1>3. AsOpen /\ ~ Open(n)'
  BY <1>1, <1>2, SameCompletion DEF Open
<1>4. CASE /\ disk[Backup] = Copy(n) /\ Put(Backup, Absent) /\ UNCHANGED faults
           /\ Report(n, "committed")
  <2>1. "committed" \in Reports
    BY DEF Reports
  <2>2. Turn(n)
    BY <1>1, <1>2, <1>4, <2>1 DEF Turn, Report, Goto
  <2>3. DiskFits' /\ OnlyOwn(n)
    BY <1>2, <1>3, <1>4, <2>2, BackupGoneFits, TurnWorks
  <2>4. pc'[n] = "reported" /\ outcome'[n] = "committed"
    BY <1>4, <2>1, Typed DEF Report, Updates
  <2> QED
    BY <1>1, <1>2, <2>2, <2>3, <2>4, EndFits, Changed
<1>5. CASE /\ disk[Backup] = Copy(n) /\ Put(Backup, Absent) /\ UNCHANGED faults
           /\ Goto(n, "spawn") /\ UNCHANGED outcome
  <2>1. "spawn" \in Past /\ "spawn" \notin Deciding
    BY DEF Past, Finishing, Deciding
  <2>2. Turn(n)
    BY <1>1, <1>2, <1>5, <2>1 DEF Turn
  <2>3. DiskFits' /\ OnlyOwn(n)
    BY <1>2, <1>3, <1>5, <2>2, BackupGoneFits, TurnWorks
  <2>4. pc'[n] = "spawn"
    BY <1>5, Typed DEF Goto, Updates
  <2>5. Phase(n)'
    BY <1>2, <1>3, <1>5, <2>1, <2>4 DEF Phase, Deciding, Finishing
  <2> QED
    BY <1>1, <1>2, <1>5, <2>2, <2>3, <2>5, Changed
<1>6. CASE Fault /\ Report(n, "preserved") /\ UNCHANGED disk
  <2>1. "preserved" \in Reports
    BY DEF Reports
  <2> QED
    BY <1>1, <1>2, <1>6, <2>1, LeftAsIs
<1> QED
  BY <1>4, <1>5, <1>6 DEF DropCopy

LEMMA SpawnWorkerKeeps ==
  ASSUME IInv, NEW n \in Attempt, SpawnWorker(n)
  PROVE  IInv'
<1>1. /\ pc[n] = "spawn" /\ pc[n] \in Finishing
      /\ UNCHANGED <<platform, disk, bound, why, want, completion, lease, overwritten>>
  BY DEF SpawnWorker, Finishing
<1>2. pc[n] \in Working /\ pc[n] \in Past /\ ~ Open(n) /\ outcome[n] = "none"
  BY <1>1, Finished
<1>3. AsOpen
  BY <1>1, SameCompletion
<1>4. CASE /\ clean' = [clean EXCEPT ![n] = [at |-> "ready", of |-> n]]
           /\ Report(n, "committed") /\ UNCHANGED faults
  <2>1. "committed" \in Reports
    BY DEF Reports
  <2>2. Turn(n)
    BY <1>1, <1>2, <1>4, <2>1 DEF Turn, Report, Goto
  <2>3. pc'[n] = "reported" /\ outcome'[n] = "committed"
    BY <1>4, <2>1, Typed DEF Report, Updates
  <2> QED
    BY <1>1, <1>2, <1>3, <2>2, <2>3, EndFits, Looked
<1>5. CASE Report(n, "preserved") /\ UNCHANGED clean /\ (faults' = faults \/ Fault)
  <2>1. "preserved" \in Reports
    BY DEF Reports
  <2> QED
    BY <1>1, <1>2, <1>5, <2>1, LeftAsIs
<1> QED
  BY <1>4, <1>5 DEF SpawnWorker

----------------------------------------------------------------------------
(* Starting, ending, dying and waiting for the lease                        *)

Worker == [at : Cleaning \cup {"idle", "ready"}, of : Cleaners]

LeaseFits ==
  /\ lease \in {Nobody} \cup {Updater(n) : n \in Attempt} \cup {Cleaner(c) : c \in Cleaners}
  /\ \A n \in Attempt : lease = Updater(n) => pc[n] \notin {"idle", "queued", "gone"}
  /\ \A c \in Cleaners : lease = Cleaner(c) => clean[c].at \notin {"idle", "ready"}

LEMMA StillFits ==
  ASSUME IInv, UNCHANGED <<platform, disk, completion>>
  PROVE  DiskType' /\ Copies' /\ Traced' /\ Recoverable'
<1>1. DiskType' /\ Copies'
  BY Typed DEF DiskType, Copies
<1>2. Traced'
  BY Typed DEF Traced, Open
<1>3. Recoverable'
  BY Typed DEF Recoverable, Open, Displaced
<1> QED
  BY <1>1, <1>2, <1>3

(* An update that only starts, ends or dies.                                *)
Stepped(m) ==
  \/ pc'[m] = pc[m] /\ outcome'[m] = outcome[m]
  \/ pc[m] \in {"idle", "queued"} /\ pc'[m] \in {"queued", "prepare"} /\ outcome'[m] = outcome[m]
  \/ pc'[m] \in {"reported", "gone"} /\ outcome'[m] \in {outcome[m], "refused"}

LEMMA SteppedKeeps ==
  ASSUME IInv, UNCHANGED <<platform, disk, bound, why, want, completion, overwritten>>,
         \A m \in Attempt : Stepped(m)
  PROVE  Phases' /\ Settled'
<1>1. ASSUME NEW m \in Attempt PROVE Phase(m)'
  <2>1. Phase(m)
    BY Typed
  <2>2. /\ Open(m)' <=> Open(m)
        /\ Unborn(m)' <=> Unborn(m)
        /\ Out(m)' <=> Out(m)
        /\ Ready(m)' <=> Ready(m)
        /\ Gap(m)' <=> Gap(m)
        /\ Back(m)' <=> Back(m)
        /\ Displaced(m)' = Displaced(m)
    BY DEF Open, Unborn, OnDisk, Out, Ready, Gap, Back, Displaced
  <2>3. CASE pc'[m] = pc[m] /\ outcome'[m] = outcome[m]
    BY <2>1, <2>2, <2>3 DEF Phase
  <2>4. CASE /\ pc[m] \in {"idle", "queued"} /\ pc'[m] \in {"queued", "prepare"}
             /\ outcome'[m] = outcome[m]
    <3>1. Unborn(m)' /\ bound'[m] = Absent /\ Open(m)' /\ outcome'[m] = "none"
      BY <2>1, <2>2, <2>4 DEF Phase
    <3> QED
      BY <2>4, <3>1 DEF Phase, Deciding, Finishing
  <2>5. CASE pc'[m] \in {"reported", "gone"}
    BY <2>5 DEF Phase, Deciding, Finishing
  <2> QED
    BY <2>3, <2>4, <2>5 DEF Stepped
<1>2. ASSUME NEW m \in Attempt, outcome'[m] = "restored" PROVE Restored(m)'
  <2>1. outcome[m] = "restored"
    BY <1>2 DEF Stepped
  <2>2. Restored(m)
    BY <2>1, Typed DEF Settled
  <2>3. \A i \in Attempt : pc[i] \notin Past => pc'[i] \notin Past
    BY DEF Stepped, Past, Deciding, Finishing
  <2>4. ~ OnDisk(Copy(m))' /\ ~ OnDisk(Candidate(m))'
    BY <2>2 DEF Restored, OnDisk
  <2> QED
    BY <2>2, <2>3, <2>4 DEF Restored
<1> QED
  BY <1>1, <1>2 DEF Phases, Settled

LEMMA RestKeeps ==
  ASSUME IInv, UNCHANGED <<platform, disk, bound, why, want, completion, overwritten>>,
         \A m \in Attempt : Stepped(m),
         pc' \in [Attempt -> Labels], outcome' \in [Attempt -> Reports],
         clean' \in [Cleaners -> Worker], faults' \in 0 .. MaxFaults,
         LeaseFits', Locked',
         \A c \in Cleaners : clean'[c].at \in Removing =>
           clean'[c].of \in Attempt /\ ~ Open(clean'[c].of)
  PROVE  IInv'
<1>1. Phases' /\ Settled'
  BY SteppedKeeps
<1>2. DiskType' /\ Copies' /\ Traced' /\ Recoverable'
  BY StillFits
<1>3. TypeOK'
  <2>1. /\ platform' \in {"unix", "windows"} /\ overwritten' \subseteq Files
        /\ disk' \in [Names -> Files \cup {Absent}]
        /\ bound' \in [Attempt -> Files \cup {Absent}]
        /\ completion' \in [Attempt -> {"none", "rolledBack", "committed"}]
    BY Typed DEF TypeOK
  <2>2. outcome' \in [Attempt -> {"none", "refused", "restored", "preserved", "committed"}]
    BY DEF Reports
  <2>3. \A c \in Cleaners : clean'[c].of \in Cleaners
    BY DEF Worker
  <2> QED
    BY <2>1, <2>2, <2>3 DEF TypeOK, LeaseFits
<1>4. Kinds'
  BY Typed DEF Kinds, Worker
<1>5. Cleanups'
  BY Typed DEF Cleanups, Open
<1> QED
  BY <1>1, <1>2, <1>3, <1>4, <1>5 DEF IInv

LEMMA Held ==
  ASSUME IInv
  PROVE  LeaseFits /\ clean \in [Cleaners -> Worker] /\ faults \in 0 .. MaxFaults
<1>1. TypeOK /\ Kinds
  BY Typed
<1> QED
  BY <1>1 DEF TypeOK, Kinds, LeaseFits, Worker

LEMMA Faulty ==
  ASSUME IInv, Fault
  PROVE  faults' \in 0 .. MaxFaults
BY Held, Numbers DEF Fault

(* The updates' side.                                                       *)
LEMMA OutsideWork ==
  ASSUME IInv, NEW n \in Attempt, NEW l \in Labels, Goto(n, l),
         UNCHANGED <<platform, disk, bound, why, want, completion, clean, overwritten>>,
         faults' \in 0 .. MaxFaults, Stepped(n),
         outcome' = outcome \/ outcome' = [outcome EXCEPT ![n] = "refused"],
         \/ lease' = lease /\ l \notin Working /\ l \notin {"idle", "queued", "gone"}
         \/ lease' = lease /\ l \notin Working /\ lease # Updater(n)
         \/ lease' = Nobody /\ lease = Updater(n) /\ l \notin Working
         \/ lease = Nobody /\ lease' = Updater(n) /\ l = "prepare"
  PROVE  IInv'
<1>1. pc' \in [Attempt -> Labels] /\ pc'[n] = l /\ \A m \in Attempt \ {n} : pc'[m] = pc[m]
  BY Typed, Change DEF Goto, Updates
<1>2. outcome' \in [Attempt -> Reports] /\ \A m \in Attempt \ {n} : outcome'[m] = outcome[m]
  BY Typed, Change DEF Updates, Reports
<1>3. \A m \in Attempt : Stepped(m)
  BY <1>1, <1>2 DEF Stepped
<1>4. LeaseFits /\ Locked /\ Cleanups
  BY Held, Typed
<1>5. clean' = clean /\ clean' \in [Cleaners -> Worker]
  BY Held
<1>6. LeaseFits'
  <2>1. CASE lease' = lease
    <3>1. lease = Updater(n) => pc'[n] \notin {"idle", "queued", "gone"}
      BY <1>1, <2>1, Holders
    <3>2. \A m \in Attempt : lease' = Updater(m) => pc'[m] \notin {"idle", "queued", "gone"}
      BY <1>1, <1>4, <2>1, <3>1 DEF LeaseFits
    <3> QED
      BY <1>4, <1>5, <2>1, <3>2 DEF LeaseFits
  <2>2. CASE lease' = Nobody
    BY <2>2, Holders DEF LeaseFits
  <2>3. CASE lease' = Updater(n) /\ l = "prepare"
    BY <1>1, <2>3, Holders DEF LeaseFits
  <2> QED
    BY <2>1, <2>2, <2>3
<1>7. Locked'
  <2>1. \A m \in Attempt \ {n} : pc'[m] \in Working => lease = Updater(m)
    BY <1>1, <1>4 DEF Locked
  <2>2. \A c \in Cleaners : clean'[c].at \in Cleaning => lease = Cleaner(c)
    BY <1>4, <1>5 DEF Locked
  <2>3. CASE lease' = lease /\ l \notin Working
    BY <1>1, <2>1, <2>2, <2>3 DEF Locked
  <2>4. CASE lease' = Nobody /\ lease = Updater(n) /\ l \notin Working
    BY <1>1, <2>1, <2>2, <2>4, Holders DEF Locked
  <2>5. CASE lease = Nobody /\ lease' = Updater(n) /\ l = "prepare"
    BY <1>1, <2>1, <2>2, <2>5, Holders DEF Locked
  <2> QED
    BY <2>3, <2>4, <2>5
<1>8. \A c \in Cleaners : clean'[c].at \in Removing =>
        clean'[c].of \in Attempt /\ ~ Open(clean'[c].of)
  BY <1>4, <1>5 DEF Cleanups
<1> QED
  BY <1>1, <1>2, <1>3, <1>5, <1>6, <1>7, <1>8, RestKeeps

LEMMA BeginKeeps ==
  ASSUME IInv, NEW n \in Attempt, Begin(n)
  PROVE  IInv'
<1>1. /\ pc[n] = "idle"
      /\ UNCHANGED <<platform, disk, bound, why, want, completion, lease, clean, overwritten, faults>>
  BY DEF Begin
<1>2. lease # Updater(n) /\ faults' \in 0 .. MaxFaults
  BY <1>1, Held DEF LeaseFits
<1>3. {"queued", "reported"} \subseteq Labels /\ {"queued", "reported"} \cap Working = {}
  BY DEF Labels, Working, Past, Deciding, Finishing
<1>4. CASE Report(n, "refused")
  <2>1. pc'[n] = "reported" /\ outcome'[n] = "refused"
    BY <1>4, Typed DEF Report, Updates
  <2>2. Stepped(n)
    BY <2>1 DEF Stepped
  <2> QED
    BY <1>1, <1>2, <1>3, <1>4, <2>2, OutsideWork DEF Report, Goto
<1>5. CASE Goto(n, "queued") /\ UNCHANGED outcome
  <2>1. pc'[n] = "queued"
    BY <1>5, Typed DEF Goto, Updates
  <2>2. Stepped(n)
    BY <1>1, <1>5, <2>1 DEF Stepped
  <2> QED
    BY <1>1, <1>2, <1>3, <1>5, <2>2, OutsideWork
<1> QED
  BY <1>4, <1>5 DEF Begin

LEMMA AcquireLeaseKeeps ==
  ASSUME IInv, NEW n \in Attempt, AcquireLease(n)
  PROVE  IInv'
<1>1. /\ pc[n] = "queued" /\ lease = Nobody /\ lease' = Updater(n) /\ Goto(n, "prepare")
      /\ UNCHANGED <<platform, disk, bound, why, want, completion, outcome, clean, overwritten, faults>>
  BY DEF AcquireLease
<1>2. faults' \in 0 .. MaxFaults
  BY <1>1, Held
<1>3. "prepare" \in Labels
  BY DEF Labels, Working
<1>4. pc'[n] = "prepare"
  BY <1>1, Typed DEF Goto, Updates
<1>5. Stepped(n)
  BY <1>1, <1>4 DEF Stepped
<1> QED
  BY <1>1, <1>2, <1>3, <1>5, OutsideWork

LEMMA EndingKeeps ==
  ASSUME IInv, NEW n \in Attempt, Goto(n, "gone"),
         lease' = IF lease = Updater(n) THEN Nobody ELSE lease, faults' = faults \/ Fault,
         UNCHANGED <<platform, disk, bound, why, want, completion, outcome, clean, overwritten>>
  PROVE  IInv'
<1>1. faults' \in 0 .. MaxFaults
  BY Held, Faulty
<1>2. "gone" \in Labels /\ "gone" \notin Working
  BY DEF Labels, Working, Past, Deciding, Finishing
<1>3. pc'[n] = "gone"
  BY Typed DEF Goto, Updates
<1>4. Stepped(n)
  BY <1>3 DEF Stepped
<1> QED
  BY <1>1, <1>2, <1>4, OutsideWork

(* The cleaners' side.                                                      *)
LEMMA Handover ==
  ASSUME IInv, NEW c \in Cleaners, NEW w \in Worker, NEW holder, clean' = [clean EXCEPT ![c] = w],
         UNCHANGED <<pc, completion>>, lease' = holder,
         \/ holder = lease /\ lease # Cleaner(c) /\ w.at \notin Cleaning
         \/ holder = Nobody /\ lease = Cleaner(c) /\ w.at \notin Cleaning
         \/ lease \in {Nobody, Cleaner(c)} /\ holder = Cleaner(c) /\ w.at \in Cleaning,
         w.at \in Removing => w.of \in Attempt /\ ~ Open(w.of)
  PROVE  /\ clean' \in [Cleaners -> Worker] /\ LeaseFits' /\ Locked'
         /\ \A d \in Cleaners : clean'[d].at \in Removing =>
              clean'[d].of \in Attempt /\ ~ Open(clean'[d].of)
<1>1. LeaseFits /\ Locked /\ Cleanups
  BY Held, Typed
<1>2. /\ clean' \in [Cleaners -> Worker] /\ clean'[c] = w
      /\ \A d \in Cleaners \ {c} : clean'[d] = clean[d]
  BY Held, Change
<1>3. LeaseFits'
  <2>1. CASE holder = lease /\ lease # Cleaner(c) /\ w.at \notin Cleaning
    BY <1>1, <1>2, <2>1 DEF LeaseFits
  <2>2. CASE holder = Nobody
    BY <2>2, Holders DEF LeaseFits
  <2>3. CASE holder = Cleaner(c) /\ w.at \in Cleaning
    BY <1>2, <2>3, Holders DEF LeaseFits, Cleaning, Removing
  <2> QED
    BY <2>1, <2>2, <2>3
<1>4. Locked'
  <2>1. \A m \in Attempt : pc'[m] \in Working => lease = Updater(m)
    BY <1>1 DEF Locked
  <2>2. \A d \in Cleaners \ {c} : clean'[d].at \in Cleaning => lease = Cleaner(d)
    BY <1>1, <1>2 DEF Locked
  <2>3. CASE holder = lease /\ lease # Cleaner(c) /\ w.at \notin Cleaning
    BY <1>2, <2>1, <2>2, <2>3 DEF Locked
  <2>4. CASE holder = Nobody /\ lease = Cleaner(c) /\ w.at \notin Cleaning
    BY <1>2, <2>1, <2>2, <2>4, Holders DEF Locked
  <2>5. CASE lease \in {Nobody, Cleaner(c)} /\ holder = Cleaner(c) /\ w.at \in Cleaning
    BY <1>2, <2>1, <2>2, <2>5, Holders DEF Locked
  <2> QED
    BY <2>3, <2>4, <2>5
<1>5. \A d \in Cleaners : clean'[d].at \in Removing =>
        clean'[d].of \in Attempt /\ ~ Open(clean'[d].of)
  BY <1>1, <1>2 DEF Cleanups
<1> QED
  BY <1>2, <1>3, <1>4, <1>5

LEMMA Cleans ==
  ASSUME IInv, NEW c \in Cleaners, NEW w \in Worker, NEW holder, clean' = [clean EXCEPT ![c] = w],
         UNCHANGED <<platform, disk, pc, bound, why, want, completion, outcome, overwritten>>,
         faults' = faults \/ Fault, lease' = holder,
         \/ holder = lease /\ lease # Cleaner(c) /\ w.at \notin Cleaning
         \/ holder = Nobody /\ lease = Cleaner(c) /\ w.at \notin Cleaning
         \/ lease \in {Nobody, Cleaner(c)} /\ holder = Cleaner(c) /\ w.at \in Cleaning,
         w.at \in Removing => w.of \in Attempt /\ ~ Open(w.of)
  PROVE  IInv'
<1>1. /\ clean' \in [Cleaners -> Worker] /\ LeaseFits' /\ Locked'
      /\ \A d \in Cleaners : clean'[d].at \in Removing =>
           clean'[d].of \in Attempt /\ ~ Open(clean'[d].of)
  BY Handover
<1>2. faults' \in 0 .. MaxFaults
  BY Held, Faulty
<1>3. pc' \in [Attempt -> Labels] /\ outcome' \in [Attempt -> Reports]
  BY Typed DEF Updates
<1>4. \A m \in Attempt : Stepped(m)
  BY DEF Stepped
<1> QED
  BY <1>1, <1>2, <1>3, <1>4, RestKeeps

LEMMA Rests ==
  ASSUME IInv, NEW c \in Cleaners, Rest(c),
         UNCHANGED <<platform, disk, pc, bound, why, want, completion, outcome, overwritten>>,
         faults' = faults \/ Fault
  PROVE  IInv'
<1>1. Resting \in Worker /\ Resting.at = "idle" /\ Resting.at \notin Cleaning
  BY Numbers DEF Resting, Worker, Cleaning, Removing
<1>2. Resting.at \notin Removing
  BY <1>1 DEF Cleaning
<1>3. clean' = [clean EXCEPT ![c] = Resting]
  BY DEF Rest
<1>4. CASE lease = Cleaner(c)
  <2>1. lease' = Nobody
    BY <1>4 DEF Rest
  <2> QED
    BY <1>1, <1>2, <1>3, <1>4, <2>1, Cleans
<1>5. CASE lease # Cleaner(c)
  <2>1. lease' = lease
    BY <1>5 DEF Rest
  <2> QED
    BY <1>1, <1>2, <1>3, <1>5, <2>1, Cleans
<1> QED
  BY <1>4, <1>5

LEMMA GoesOn ==
  ASSUME IInv, NEW c \in Cleaners, NEW l \in Cleaning, clean' = [clean EXCEPT ![c].at = l]
  PROVE  /\ [at |-> l, of |-> clean[c].of] \in Worker
         /\ clean' = [clean EXCEPT ![c] = [at |-> l, of |-> clean[c].of]]
<1>1. clean[c] \in Worker
  BY Held
<1>2. [clean[c] EXCEPT !.at = l] = [at |-> l, of |-> clean[c].of]
  BY <1>1 DEF Worker
<1> QED
  BY <1>1, <1>2 DEF Worker

LEMMA WorkerLocksKeeps ==
  ASSUME IInv, NEW n \in Attempt, WorkerLocks(n)
  PROVE  IInv'
<1>1. n \in Cleaners /\ "revalidate" \in Cleaning /\ "revalidate" \notin Removing
  BY Numbers DEF Cleaning, Removing
<1>2. /\ lease = Nobody /\ lease' = Cleaner(n)
      /\ UNCHANGED <<platform, disk, pc, bound, why, want, completion, outcome, overwritten, faults>>
  BY DEF WorkerLocks
<1>3. /\ [at |-> "revalidate", of |-> clean[n].of] \in Worker
      /\ clean' = [clean EXCEPT ![n] = [at |-> "revalidate", of |-> clean[n].of]]
  BY <1>1, GoesOn DEF WorkerLocks
<1> QED
  BY <1>1, <1>2, <1>3, Cleans

LEMMA StartupLocksKeeps ==
  ASSUME IInv, StartupLocks
  PROVE  IInv'
<1>1. PICK n \in Attempt : /\ disk[Journal] = Record(n)
                           /\ clean' = [clean EXCEPT ![0] = [at |-> "backup", of |-> n]]
  BY DEF StartupLocks
<1>2. ~ Open(n)
  BY <1>1, Typed DEF Cleanups
<1>3. [at |-> "backup", of |-> n] \in Worker /\ "backup" \in Cleaning
  BY Numbers DEF Worker, Cleaning, Removing
<1>4. /\ lease = Nobody /\ lease' = Cleaner(0) /\ 0 \in Cleaners
      /\ UNCHANGED <<platform, disk, pc, bound, why, want, completion, outcome, overwritten, faults>>
  BY Numbers DEF StartupLocks
<1> QED
  BY <1>1, <1>2, <1>3, <1>4, Cleans

LEMMA RevalidateKeeps ==
  ASSUME IInv, NEW c \in Cleaners, Revalidate(c)
  PROVE  IInv'
<1>1. /\ clean[c].at = "revalidate"
      /\ UNCHANGED <<platform, disk, pc, bound, why, want, completion, outcome, overwritten, faults>>
  BY DEF Revalidate
<1>2. CASE Rest(c)
  BY <1>1, <1>2, Rests
<1>3. CASE /\ disk[Journal] = Record(clean[c].of) /\ Validated(clean[c].of)
           /\ clean' = [clean EXCEPT ![c].at = "backup"] /\ UNCHANGED lease
  <2>1. "backup" \in Cleaning /\ lease = Cleaner(c)
    BY <1>1, Typed DEF Locked, Cleaning, Removing
  <2>2. /\ [at |-> "backup", of |-> clean[c].of] \in Worker
        /\ clean' = [clean EXCEPT ![c] = [at |-> "backup", of |-> clean[c].of]]
    BY <1>3, <2>1, GoesOn
  <2>3. clean[c].of \in Attempt /\ ~ Open(clean[c].of)
    <3>1. disk[Journal] \in Files \cup {Absent}
      BY Typed, Places DEF DiskType
    <3>2. ASSUME clean[c].of = 0 PROVE FALSE
      <4>1. Record(0) # Absent /\ Record(0) # Installed /\ Record(0) # Torn
            /\ \A k \in Foreign : Record(0) # ByOther(k)
        BY DEF Record, Absent, Installed, Torn, ByOther
      <4>2. \A m \in Attempt : Record(0) # Copy(m) /\ Record(0) # Candidate(m) /\ Record(0) # Record(m)
        BY Numbers DEF Record, Copy, Candidate
      <4> QED
        BY <1>3, <3>1, <3>2, <4>1, <4>2 DEF Files
    <3>3. clean[c].of \in Cleaners
      BY Held DEF Worker
    <3>4. clean[c].of \in Attempt
      BY <3>2, <3>3 DEF Cleaners
    <3> QED
      BY <1>3, <3>4, Typed DEF Cleanups
  <2> QED
    BY <1>1, <1>3, <2>1, <2>2, <2>3, Cleans
<1> QED
  BY <1>2, <1>3 DEF Revalidate

LEMMA CleanerDiesKeeps ==
  ASSUME IInv, NEW c \in Cleaners, CleanerDies(c)
  PROVE  IInv'
BY Rests DEF CleanerDies

----------------------------------------------------------------------------
(* Cleaning up and writing from outside                                     *)

(* A cleaner takes away the backup, the displaced file or the journal of an *)
(* update that committed, while nobody works.                               *)
LEMMA CleanerAlone ==
  ASSUME IInv, NEW c \in Cleaners, clean[c].at \in Removing
  PROVE  /\ lease = Cleaner(c) /\ clean[c].of \in Attempt /\ ~ Open(clean[c].of)
         /\ \A m \in Attempt : pc[m] \notin Working
<1>1. lease = Cleaner(c)
  BY Typed DEF Locked, Cleaning
<1>2. \A m \in Attempt : pc[m] \notin Working
  BY <1>1, Typed, Holders DEF Locked
<1> QED
  BY <1>1, <1>2, Typed DEF Cleanups

LEMMA RemovalFits ==
  ASSUME IInv, NEW n \in Attempt, ~ Open(n), NEW x \in {Backup, Aside(n), Journal},
         x = Backup => disk[Backup] \in {Copy(n), Absent},
         Put(x, Absent), UNCHANGED <<platform, completion>>
  PROVE  /\ DiskType' /\ Copies' /\ Traced' /\ Recoverable'
         /\ disk'[x] = Absent /\ \A y \in Names \ {x} : disk'[y] = disk[y]
         /\ x \in Names /\ disk'[Public] = disk[Public]
<1>1. x \in Names /\ x # Public /\ x # Staged /\ \A m \in Attempt : x # Failed(m)
  BY Places, OwnPlaces
<1>2. DiskType' /\ disk'[x] = Absent /\ \A y \in Names \ {x} : disk'[y] = disk[y]
  BY <1>1, PutDoes, Typed
<1>3. \A m \in Attempt : Absent # Copy(m) /\ Absent # Candidate(m)
  BY Tokens
<1>4. disk'[Public] = disk[Public] /\ disk'[Staged] = disk[Staged]
  BY <1>1, <1>2, Places
<1>5. Copies'
  BY <1>2, <1>3, Typed DEF Copies
<1>6. \A m \in Attempt : Open(m)' <=> Open(m)
  BY DEF Open
<1>7. \A m \in Attempt : Open(m) /\ disk[Backup] = Copy(m) => disk'[Backup] = Copy(m)
  <2> SUFFICES ASSUME NEW m \in Attempt, Open(m), disk[Backup] = Copy(m) PROVE disk'[Backup] = Copy(m)
    OBVIOUS
  <2>1. Copy(m) \notin {Copy(n), Absent}
    BY Tokens
  <2> QED
    BY <1>2, <2>1, Places
<1>8. disk[Backup] = Absent => disk'[Backup] = Absent
  BY <1>2, Places
<1>9. Traced'
  <2> SUFFICES ASSUME NEW y \in Names, NEW m \in Attempt, disk'[y] = Candidate(m), Open(m)
               PROVE  \/ y = Failed(m)
                      \/ y = Staged /\ disk'[Backup] = Absent
                      \/ y \in {Public, Staged} /\ disk'[Backup] = Copy(m)
    BY <1>6 DEF Traced
  <2>1. disk[y] = Candidate(m)
    BY <1>2, <1>3
  <2> QED
    BY <1>7, <1>8, <2>1, Typed DEF Traced
<1>10. \A m \in Attempt : Open(m) => disk'[Displaced(m)] = disk[Displaced(m)] /\ disk'[Aside(m)] = disk[Aside(m)]
  <2> SUFFICES ASSUME NEW m \in Attempt, Open(m)
               PROVE  disk'[Displaced(m)] = disk[Displaced(m)] /\ disk'[Aside(m)] = disk[Aside(m)]
    OBVIOUS
  <2>1. m # n
    OBVIOUS
  <2>2. Aside(m) \in Names \ {x}
    BY <2>1, OwnPlaces
  <2> QED
    BY <1>2, <1>4, <2>2 DEF Displaced
<1>11. \A m \in Attempt : Displaced(m)' = Displaced(m)
  BY DEF Displaced
<1>12. Recoverable'
  <2>1. \A m \in Attempt : disk'[Public] = Candidate(m) /\ Open(m)' => disk'[Displaced(m)'] # Absent
    BY <1>4, <1>6, <1>10, <1>11, Typed DEF Recoverable
  <2>2. disk'[Public] = Absent =>
          /\ platform' = "windows"
          /\ \E m \in Attempt : Open(m)' /\ disk'[Aside(m)] # Absent /\ disk'[Backup] = Copy(m)
    BY <1>4, <1>6, <1>7, <1>10, Typed DEF Recoverable
  <2> QED
    BY <2>1, <2>2 DEF Recoverable
<1> QED
  BY <1>1, <1>2, <1>4, <1>5, <1>9, <1>12

LEMMA RemovalKeeps ==
  ASSUME IInv, NEW c \in Cleaners, clean[c].at \in Removing, NEW n \in Attempt, n = clean[c].of,
         NEW x \in {Backup, Aside(n), Journal},
         x = Backup => disk[Backup] \in {Copy(n), Absent}, Put(x, Absent),
         UNCHANGED <<platform, pc, bound, why, want, completion, outcome, overwritten, faults>>,
         \/ Rest(c)
         \/ \E l \in Removing : clean' = [clean EXCEPT ![c].at = l] /\ UNCHANGED lease
  PROVE  IInv'
<1>1. lease = Cleaner(c) /\ ~ Open(n) /\ \A m \in Attempt : pc[m] \notin Working
  BY CleanerAlone
<1>2. /\ DiskType' /\ Copies' /\ Traced' /\ Recoverable'
      /\ disk'[x] = Absent /\ \A y \in Names \ {x} : disk'[y] = disk[y]
      /\ x \in Names /\ disk'[Public] = disk[Public]
  BY <1>1, RemovalFits
<1>3. /\ clean' \in [Cleaners -> Worker] /\ LeaseFits' /\ Locked'
      /\ \A d \in Cleaners : clean'[d].at \in Removing =>
           clean'[d].of \in Attempt /\ ~ Open(clean'[d].of)
  <2>1. CASE Rest(c)
    <3>1. Resting \in Worker /\ Resting.at \notin Cleaning /\ Resting.at \notin Removing
      BY Numbers DEF Resting, Worker, Cleaning, Removing
    <3>2. lease' = Nobody /\ clean' = [clean EXCEPT ![c] = Resting]
      BY <1>1, <2>1 DEF Rest
    <3> QED
      BY <1>1, <3>1, <3>2, Handover
  <2>2. ASSUME NEW l \in Removing, clean' = [clean EXCEPT ![c].at = l], UNCHANGED lease
        PROVE  /\ clean' \in [Cleaners -> Worker] /\ LeaseFits' /\ Locked'
               /\ \A d \in Cleaners : clean'[d].at \in Removing =>
                    clean'[d].of \in Attempt /\ ~ Open(clean'[d].of)
    <3>1. l \in Cleaning
      BY DEF Cleaning
    <3>2. /\ [at |-> l, of |-> n] \in Worker
          /\ clean' = [clean EXCEPT ![c] = [at |-> l, of |-> n]]
      BY <2>2, <3>1, GoesOn
    <3> QED
      BY <1>1, <2>2, <3>1, <3>2, Handover
  <2> QED
    BY <2>1, <2>2
<1>4. Phases'
  <2> SUFFICES ASSUME NEW m \in Attempt PROVE Phase(m)'
    BY DEF Phases
  <2>1. Phase(m) /\ pc'[m] = pc[m] /\ pc[m] \notin Working
    BY <1>1, Typed
  <2>2. Unborn(m) => Unborn(m)'
    BY <1>2, OwnPlaces, Tokens DEF Unborn, OnDisk
  <2>3. Open(m)' <=> Open(m)
    BY DEF Open
  <2> QED
    BY <2>1, <2>2, <2>3 DEF Phase, Working, Past, Deciding, Finishing
<1>5. Settled'
  <2> SUFFICES ASSUME NEW m \in Attempt, outcome'[m] = "restored" PROVE Restored(m)'
    BY DEF Settled
  <2>1. Restored(m)
    BY Typed DEF Settled
  <2>2. ~ OnDisk(Copy(m))' /\ ~ OnDisk(Candidate(m))'
    BY <1>2, <2>1, Tokens DEF Restored, OnDisk
  <2> QED
    BY <1>2, <2>1, <2>2 DEF Restored
<1>6. TypeOK' /\ Kinds'
  <2>1. /\ platform' \in {"unix", "windows"} /\ overwritten' \subseteq Files
        /\ faults' \in 0 .. MaxFaults
        /\ bound' \in [Attempt -> Files \cup {Absent}]
        /\ completion' \in [Attempt -> {"none", "rolledBack", "committed"}]
        /\ outcome' \in [Attempt -> {"none", "refused", "restored", "preserved", "committed"}]
    BY Typed DEF TypeOK
  <2>2. disk' \in [Names -> Files \cup {Absent}]
    BY <1>2 DEF DiskType
  <2>3. \A d \in Cleaners : clean'[d].of \in Cleaners
    BY <1>3 DEF Worker
  <2>4. TypeOK'
    BY <1>3, <2>1, <2>2, <2>3 DEF TypeOK, LeaseFits
  <2>5. Kinds'
    BY <1>3, Typed DEF Kinds, Worker
  <2> QED
    BY <2>4, <2>5
<1>7. Cleanups'
  <2>1. \A m \in Attempt : disk'[Journal] = Record(m) => disk[Journal] = Record(m)
    BY <1>2, Places, Tokens
  <2>2. \A m \in Attempt : disk'[Journal] = Record(m) => ~ Open(m)'
    BY <2>1, Typed DEF Cleanups, Open
  <2>3. \A d \in Cleaners : clean'[d].at \in Removing =>
          clean'[d].of \in Attempt /\ completion'[clean'[d].of] = "committed"
    BY <1>3 DEF Open
  <2> QED
    BY <2>2, <2>3 DEF Cleanups, Open
<1> QED
  BY <1>2, <1>3, <1>4, <1>5, <1>6, <1>7 DEF IInv

LEMMA CleanStepKeeps ==
  ASSUME IInv, NEW c \in Cleaners, CleanStep(c)
  PROVE  IInv'
<1> DEFINE n == clean[c].of
<1>1. UNCHANGED <<platform, pc, bound, why, want, completion, outcome, overwritten>>
  BY DEF CleanStep
<1>2. CASE CleanName(c, Backup, Copy(n), "backup", "displaced")
  <2>1. clean[c].at \in Removing /\ "displaced" \in Removing
    BY <1>2 DEF CleanName, Removing
  <2>2. n \in Attempt
    BY <2>1, CleanerAlone
  <2> QED
    BY <1>1, <1>2, <2>1, <2>2, RemovalKeeps DEF CleanName
<1>3. CASE CleanName(c, Aside(n), bound[n], "displaced", "journal")
  <2>1. clean[c].at \in Removing /\ "journal" \in Removing
    BY <1>3 DEF CleanName, Removing
  <2>2. n \in Attempt
    BY <2>1, CleanerAlone
  <2>3. Aside(n) # Backup
    BY <2>2, OwnPlaces
  <2> QED
    BY <1>1, <1>3, <2>1, <2>2, <2>3, RemovalKeeps DEF CleanName
<1>4. CASE CleanName(c, Journal, Record(n), "journal", "idle")
  <2>1. clean[c].at \in Removing
    BY <1>4 DEF CleanName, Removing
  <2>2. n \in Attempt
    BY <2>1, CleanerAlone
  <2> QED
    BY <1>1, <1>4, <2>1, <2>2, Places, RemovalKeeps DEF CleanName
<1>5. CASE CleanFails(c)
  BY <1>1, <1>5, Rests DEF CleanFails
<1> QED
  BY <1>2, <1>3, <1>4, <1>5 DEF CleanStep

(* A writer outside puts a file of its own at the public path.              *)
LEMMA OutsideWriteKeeps ==
  ASSUME IInv, NEW k \in Foreign, OutsideWrite(k)
  PROVE  IInv'
<1>1. /\ Put(Public, ByOther(k)) /\ overwritten' = overwritten \cup ({disk[Public]} \ {Absent})
      /\ UNCHANGED <<platform, pc, bound, why, want, completion, outcome, lease, clean, faults>>
  BY DEF OutsideWrite
<1>2. /\ ByOther(k) \in Files /\ ByOther(k) # Absent
      /\ \A m \in Attempt : ByOther(k) # Copy(m) /\ ByOther(k) # Candidate(m)
  BY Outsiders, Tokens
<1>3. DiskType' /\ disk'[Public] = ByOther(k) /\ \A y \in Names \ {Public} : disk'[y] = disk[y]
  BY <1>1, <1>2, PutDoes, Places, Typed
<1>4. /\ disk'[Backup] = disk[Backup] /\ disk'[Staged] = disk[Staged]
      /\ disk'[Journal] = disk[Journal]
      /\ \A m \in Attempt : disk'[Aside(m)] = disk[Aside(m)] /\ disk'[Failed(m)] = disk[Failed(m)]
  BY <1>3, Places, OwnPlaces
<1>5. \A m \in Attempt, y \in Names :
        /\ disk'[y] = Copy(m) => disk[y] = Copy(m)
        /\ disk'[y] = Candidate(m) => disk[y] = Candidate(m) /\ y # Public
  BY <1>2, <1>3
<1>6. \A m \in Attempt : /\ ~ OnDisk(Copy(m)) => ~ OnDisk(Copy(m))'
                         /\ ~ OnDisk(Candidate(m)) => ~ OnDisk(Candidate(m))'
  BY <1>5 DEF OnDisk
<1>7. \A m \in Attempt : (Open(m)' <=> Open(m)) /\ Displaced(m)' = Displaced(m)
  BY <1>1 DEF Open, Displaced
<1>8. \A f \in Files : (disk[Public] = f \/ f \in overwritten) => f \in overwritten'
  BY <1>1, NoFile
<1>9. Copies'
  BY <1>5, Typed DEF Copies
<1>10. Traced'
  BY <1>4, <1>5, <1>7, Typed DEF Traced
<1>11. Recoverable'
  BY <1>2, <1>3 DEF Recoverable
<1>12. Cleanups'
  BY <1>1, <1>4, Typed DEF Cleanups, Open
<1>13. TypeOK' /\ Kinds' /\ Locked'
  <2>1. disk[Public] \in Files \cup {Absent}
    BY Typed, Places DEF DiskType
  <2>2. overwritten' \subseteq Files
    BY <1>1, <2>1, Typed DEF TypeOK
  <2>3. disk' \in [Names -> Files \cup {Absent}]
    BY <1>3 DEF DiskType
  <2>4. TypeOK'
    BY <1>1, <2>2, <2>3, Typed DEF TypeOK
  <2> QED
    BY <1>1, <2>4, Typed DEF Kinds, Locked
<1>14. Phases'
  <2> SUFFICES ASSUME NEW m \in Attempt PROVE Phase(m)'
    BY DEF Phases
  <2>1. Phase(m)
    BY Typed
  <2>2. disk'[Public] # Absent /\ disk'[Public] # Candidate(m)
    BY <1>2, <1>3
  <2>3. Unborn(m) => Unborn(m)'
    BY <1>4, <1>6 DEF Unborn
  <2>4. Ready(m) => Ready(m)'
    BY <1>4, <2>2 DEF Ready
  <2>5. Displaced(m) \in {Staged, Aside(m)} /\ disk'[Displaced(m)'] = disk[Displaced(m)]
    BY <1>4, <1>7 DEF Displaced
  <2>6. Out(m) => Out(m)'
    BY <1>4, <2>2, <2>5 DEF Out
  <2>7. Gap(m) => Gap(m)'
    BY <1>1, <1>4, <2>2 DEF Gap
  <2>8. want[m] # Absent /\ Back(m) => Back(m)'
    <3>1. want[m] \in Files \cup {Absent} /\ want'[m] = want[m]
      BY <1>1, Typed DEF Updates
    <3> QED
      BY <1>8, <3>1 DEF Back
  <2> QED
    BY <1>1, <1>4, <1>7, <2>1, <2>2, <2>3, <2>4, <2>5, <2>6, <2>7, <2>8 DEF Phase
<1>15. Settled'
  <2> SUFFICES ASSUME NEW m \in Attempt, outcome'[m] = "restored" PROVE Restored(m)'
    BY DEF Settled
  <2>1. Restored(m)
    BY <1>1, Typed DEF Settled
  <2>2. want[m] \in Files
    BY <2>1, Typed DEF Restored, Updates
  <2>3. ~ OnDisk(Copy(m))' /\ ~ OnDisk(Candidate(m))'
    BY <1>6, <2>1 DEF Restored
  <2> QED
    BY <1>1, <1>8, <2>1, <2>2, <2>3 DEF Restored
<1> QED
  BY <1>3, <1>9, <1>10, <1>11, <1>12, <1>13, <1>14, <1>15 DEF IInv

----------------------------------------------------------------------------
(* The invariant                                                            *)

LEMMA InitGood == Init => IInv
<1> SUFFICES ASSUME Init PROVE IInv
  OBVIOUS
<1>1. /\ disk[Public] = Installed /\ \A x \in Names \ {Public} : disk[x] = Absent
  BY Places DEF Init
<1>2. Installed \in Files /\ Installed # Absent
      /\ \A m \in Attempt : Installed # Copy(m) /\ Installed # Candidate(m) /\ Installed # Record(m)
  BY DEF Files, Installed, Absent, Copy, Candidate, Record
<1>3. \A m \in Attempt, x \in Names :
        disk[x] # Copy(m) /\ disk[x] # Candidate(m) /\ disk[x] # Record(m)
  BY <1>1, <1>2, Tokens
<1>4. \A c \in Cleaners : clean[c].at = "idle" /\ clean[c].of \in Cleaners
  BY Numbers DEF Init, Resting
<1>5. TypeOK
  <2>1. disk \in [Names -> Files \cup {Absent}]
    BY <1>2 DEF Init
  <2>2. 0 \in 0 .. MaxFaults
    BY Numbers
  <2> QED
    BY <1>4, <2>1, <2>2, Holders DEF Init, TypeOK
<1>6. Kinds
  BY Numbers DEF Init, Kinds, Labels, Reasons, Resting
<1>7. Locked
  BY <1>4 DEF Init, Locked, Working, Past, Deciding, Finishing, Cleaning, Removing
<1>8. Cleanups
  BY <1>3, <1>4, Places DEF Cleanups, Removing
<1>9. Copies /\ Traced
  BY <1>3 DEF Copies, Traced
<1>10. Recoverable
  BY <1>1, <1>2, <1>3, Places DEF Recoverable
<1>11. Phases
  BY <1>1, <1>3, OwnPlaces DEF Init, Phases, Phase, Unborn, OnDisk, Open, Deciding, Finishing
<1>12. Settled
  BY DEF Init, Settled
<1> QED
  BY <1>5, <1>6, <1>7, <1>8, <1>9, <1>10, <1>11, <1>12 DEF IInv

LEMMA StutterKeeps ==
  ASSUME IInv, UNCHANGED vars
  PROVE  IInv'
<1>1. LeaseFits' /\ Locked'
  BY Held, Typed DEF vars, LeaseFits, Locked
<1>2. \A m \in Attempt : Stepped(m)
  BY DEF vars, Stepped
<1>3. \A c \in Cleaners : clean'[c].at \in Removing =>
        clean'[c].of \in Attempt /\ ~ Open(clean'[c].of)
  BY Typed DEF vars, Cleanups
<1>4. pc' \in [Attempt -> Labels] /\ outcome' \in [Attempt -> Reports]
  BY Typed DEF vars, Updates
<1>5. clean' \in [Cleaners -> Worker] /\ faults' \in 0 .. MaxFaults
  BY Held DEF vars
<1> QED
  BY <1>1, <1>2, <1>3, <1>4, <1>5, RestKeeps DEF vars

LEMMA UpdateStepKeeps ==
  ASSUME IInv, NEW n \in Attempt, UpdateStep(n)
  PROVE  IInv'
<1>1. CASE Begin(n)
  BY <1>1, BeginKeeps
<1>2. CASE AcquireLease(n)
  BY <1>2, AcquireLeaseKeeps
<1>3. CASE PrepareBackup(n) \/ Stage(n) \/ CheckCurrent(n) \/ Publish(n)
  BY <1>3, PrepareBackupKeeps, StageKeeps, CheckCurrentKeeps, PublishKeeps
<1>4. CASE Classify(n) \/ Interrupted(n) \/ TakeBackCheck(n) \/ SwapBack(n)
  BY <1>4, ClassifyKeeps, InterruptedKeeps, TakeBackCheckKeeps, SwapBackKeeps
<1>5. CASE Verify(n) \/ FillEmpty(n) \/ DropCandidate(n) \/ DropBackup(n)
  BY <1>5, VerifyKeeps, FillEmptyKeeps, DropCandidateKeeps, DropBackupKeeps
<1>6. CASE Rollback(n) \/ Preserve(n) \/ Commit(n)
  BY <1>6, RollbackKeeps, PreserveKeeps, CommitKeeps
<1>7. CASE DropDisplaced(n) \/ DropCopy(n) \/ SpawnWorker(n)
  BY <1>7, DropDisplacedKeeps, DropCopyKeeps, SpawnWorkerKeeps
<1>8. CASE Exit(n)
  BY <1>8, EndingKeeps DEF Exit
<1> QED
  BY <1>1, <1>2, <1>3, <1>4, <1>5, <1>6, <1>7, <1>8 DEF UpdateStep

LEMMA StepKeeps ==
  ASSUME IInv, [Next]_vars
  PROVE  IInv'
<1>1. CASE UNCHANGED vars
  BY <1>1, StutterKeeps
<1>2. ASSUME NEW n \in Attempt, UpdateStep(n) \/ UpdaterDies(n) \/ WorkerLocks(n)
      PROVE  IInv'
  <2>1. CASE UpdaterDies(n)
    BY <2>1, EndingKeeps DEF UpdaterDies
  <2> QED
    BY <1>2, <2>1, UpdateStepKeeps, WorkerLocksKeeps
<1>3. CASE StartupLocks
  BY <1>3, StartupLocksKeeps
<1>4. ASSUME NEW c \in Cleaners, Revalidate(c) \/ CleanStep(c) \/ CleanerDies(c)
      PROVE  IInv'
  BY <1>4, RevalidateKeeps, CleanStepKeeps, CleanerDiesKeeps
<1>5. ASSUME NEW k \in Foreign, OutsideWrite(k)
      PROVE  IInv'
  BY <1>5, OutsideWriteKeeps
<1> QED
  BY <1>1, <1>2, <1>3, <1>4, <1>5 DEF Next

(* The exchange's inductive invariant: which copy and which candidate is at *)
(* which name, and what of it holds at each point of each update.           *)
THEOREM ReplacementInductive == Spec => []IInv
<1>1. IInv /\ [Next]_vars => IInv'
  BY StepKeeps
<1> QED
  BY <1>1, InitGood, PTL DEF Spec

(* Every variable of the exchange keeps its kind.                           *)
THEOREM ReplacementTypeCorrect == Spec => []TypeOK
<1>1. IInv => TypeOK
  BY DEF IInv
<1> QED
  BY <1>1, ReplacementInductive, PTL

(* However many updates, outside writers and failures there are, an         *)
(* exchange nobody has decided on can be taken back: the displaced file and *)
(* the copy are there (update.rs `PublicationRecoveryOwner`).               *)
THEOREM UndecidedCanBeTakenBack == Spec => []UndecidedIsRecoverable
<1>1. ASSUME IInv PROVE UndecidedIsRecoverable
  <2>1. Traced /\ Recoverable
    BY <1>1, Typed
  <2>2. ASSUME NEW n \in Attempt, disk[Public] = Candidate(n), Open(n)
        PROVE  disk[Backup] = Copy(n) /\ disk[Displaced(n)] # Absent
    <3>1. Public \in Names /\ Public # Staged /\ Public # Failed(n)
      BY Places, OwnPlaces
    <3>2. disk[Backup] = Copy(n)
      BY <2>1, <2>2, <3>1 DEF Traced
    <3> QED
      BY <2>1, <2>2, <3>2 DEF Recoverable
  <2>3. disk[Public] = Absent =>
          /\ platform = "windows"
          /\ \E n \in Attempt : disk[Aside(n)] # Absent /\ disk[Backup] = Copy(n)
    BY <2>1 DEF Recoverable
  <2> QED
    BY <2>2, <2>3 DEF UndecidedIsRecoverable, Open
<1> QED
  BY <1>1, ReplacementInductive, PTL

(* An update that reports a restoration left no copy and no candidate, and  *)
(* what it put back is public until another writer or update takes it       *)
(* (update.rs `rollback_uncommitted_unix_exchange` and its siblings).       *)
THEOREM RestoredMeansRestored == Spec => []RestoredIsTrue
<1>1. IInv => RestoredIsTrue
  BY Typed DEF Settled, Restored, RestoredIsTrue
<1> QED
  BY <1>1, ReplacementInductive, PTL

----------------------------------------------------------------------------
(* No file is lost                                                          *)

(* What Kept leaves out.                                                    *)
LEMMA KeptIs ==
  ASSUME NEW f \in Kept
  PROVE  /\ f # Absent
         /\ \A n \in Attempt : f # Copy(n) /\ f # Record(n) /\ (Open(n) => f # Candidate(n))
<1>1. CASE f = Installed
  BY <1>1 DEF Installed, Absent, Copy, Record, Candidate
<1>2. ASSUME NEW k \in Foreign, f = ByOther(k)
      PROVE  /\ f # Absent
             /\ \A n \in Attempt : f # Copy(n) /\ f # Record(n) /\ (Open(n) => f # Candidate(n))
  BY <1>2, Outsiders, Tokens
<1>3. ASSUME NEW m \in Attempt, ~ Open(m), f = Candidate(m)
      PROVE  /\ f # Absent
             /\ \A n \in Attempt : f # Copy(n) /\ f # Record(n) /\ (Open(n) => f # Candidate(n))
  <2>1. f # Absent /\ \A n \in Attempt : f # Copy(n) /\ f # Record(n)
    BY <1>3, Tokens
  <2>2. \A n \in Attempt : Open(n) => n # m
    BY <1>3
  <2> QED
    BY <1>3, <2>1, <2>2, Tokens
<1> QED
  BY <1>1, <1>2, <1>3 DEF Kept, Open

(* A file that is gone was where the step put something.                    *)
LEMMA GoneFrom ==
  ASSUME NEW f, OnDisk(f), ~ OnDisk(f)', NEW x \in Names,
         \A y \in Names \ {x} : disk[y] = f => \E z \in Names : disk'[z] = f
  PROVE  disk[x] = f
BY DEF OnDisk

LEMMA PutOver ==
  ASSUME DiskType, NEW f, OnDisk(f), ~ OnDisk(f)', NEW x \in Names, NEW g \in Files \cup {Absent}, Put(x, g)
  PROVE  disk[x] = f
<1>1. \A y \in Names \ {x} : disk'[y] = disk[y]
  BY PutDoes
<1> QED
  BY <1>1, GoneFrom

LEMMA NotExchanged ==
  ASSUME DiskType, NEW f, OnDisk(f), ~ OnDisk(f)', NEW x \in Names, NEW y \in Names, x # y
  PROVE  ~ Exchange(x, y)
<1> SUFFICES ASSUME Exchange(x, y) PROVE FALSE
  OBVIOUS
<1>1. /\ disk'[x] = disk[y] /\ disk'[y] = disk[x]
      /\ \A z \in Names \ {x, y} : disk'[z] = disk[z]
  BY ExchangeDoes
<1> QED
  BY <1>1 DEF OnDisk

LEMMA ReplacedOver ==
  ASSUME DiskType, NEW f, OnDisk(f), ~ OnDisk(f)', NEW w \in Names, NEW x \in Names,
         w # x, x # Public, w # Public, Replace(w, x) \/ MoveAside(x)
  PROVE  disk[x] = f
<1>1. CASE Replace(w, x)
  <2>1. /\ disk'[x] = disk[Public] /\ disk'[Public] = disk[w]
        /\ \A z \in Names \ {w, x, Public} : disk'[z] = disk[z]
    BY <1>1, ReplaceDoes
  <2> QED
    BY <2>1, Places, GoneFrom
<1>2. CASE MoveAside(x)
  <2>1. disk'[x] = disk[Public] /\ \A z \in Names \ {x, Public} : disk'[z] = disk[z]
    BY <1>2, MoveAsideDoes
  <2> QED
    BY <2>1, GoneFrom
<1> QED
  BY <1>1, <1>2

(* The two ways a kept file may go.                                         *)
MayGo(f) == \/ f \in overwritten'
            \/ \E n \in Attempt : bound[n] = f /\ completion[n] = "committed"

LEMMA ExchangesLoseNothing ==
  ASSUME IInv, NEW n \in Attempt, Publish(n) \/ SwapBack(n) \/ FillEmpty(n), NEW f \in Kept,
         OnDisk(f), ~ OnDisk(f)'
  PROVE  FALSE
<1>1. /\ DiskType /\ f # Absent /\ disk' # disk
      /\ platform \in {"unix", "windows"}
  BY Typed, KeptIs DEF OnDisk, TypeOK
<1>2. /\ Aside(n) # Public /\ Aside(n) # Staged /\ Public # Staged /\ Aside(n) # Failed(n)
      /\ Failed(n) # Public /\ Failed(n) # Staged
      /\ {Aside(n), Failed(n), Public, Staged} \subseteq Names
  BY Places, OwnPlaces
<1>3. CASE Publish(n)
  <2>1. disk[Aside(n)] = Absent
    BY <1>3, Typed DEF Publish, Phase, Ready
  <2>2. ~ Exchange(Staged, Public)
    BY <1>1, <1>2, NotExchanged
  <2>3. ~ Replace(Staged, Aside(n)) /\ ~ MoveAside(Aside(n))
    BY <1>1, <1>2, <2>1, ReplacedOver
  <2> QED
    BY <1>1, <1>3, <2>2, <2>3 DEF Publish
<1>4. CASE SwapBack(n)
  <2>1. disk[Failed(n)] = Absent
    BY <1>4, Typed DEF SwapBack, Phase, Out
  <2>2. ~ Exchange(Staged, Public)
    BY <1>1, <1>2, NotExchanged
  <2>3. ~ Replace(Aside(n), Failed(n)) /\ ~ MoveAside(Failed(n))
    BY <1>1, <1>2, <2>1, ReplacedOver
  <2> QED
    BY <1>1, <1>4, <2>2, <2>3 DEF SwapBack
<1>5. CASE FillEmpty(n)
  <2>1. disk[Public] = Absent /\ disk' = [disk EXCEPT ![Public] = disk[Aside(n)], ![Aside(n)] = Absent]
    BY <1>1, <1>5 DEF FillEmpty
  <2>2. disk'[Public] = disk[Aside(n)] /\ \A z \in Names \ {Aside(n), Public} : disk'[z] = disk[z]
    BY <1>1, <1>2, <2>1 DEF DiskType
  <2>3. disk[Public] = f
    BY <1>2, <2>2, GoneFrom
  <2> QED
    BY <1>1, <2>1, <2>3
<1> QED
  BY <1>3, <1>4, <1>5

LEMMA WritesLoseNothing ==
  ASSUME IInv, NEW n \in Attempt, PrepareBackup(n) \/ Stage(n) \/ Commit(n), NEW f \in Kept,
         OnDisk(f), ~ OnDisk(f)'
  PROVE  FALSE
<1>1. DiskType /\ f # Absent /\ disk' # disk
  BY Typed, KeptIs DEF OnDisk
<1>2. Copy(n) \in Files /\ Candidate(n) \in Files /\ Record(n) \in Files /\ Torn \in Files
  BY Tokens DEF Files
<1>3. CASE PrepareBackup(n)
  <2>1. disk[Backup] = Absent /\ Put(Backup, Copy(n))
    BY <1>1, <1>3 DEF PrepareBackup
  <2> QED
    BY <1>1, <1>2, <2>1, Places, PutOver
<1>4. CASE Stage(n)
  <2>1. Put(Staged, Candidate(n))
    BY <1>1, <1>4 DEF Stage
  <2>2. disk[Staged] = Absent
    BY <1>4, Typed DEF Stage, Phase
  <2> QED
    BY <1>1, <1>2, <2>1, <2>2, Places, PutOver
<1>5. CASE Commit(n)
  <2>1. disk[Journal] = Absent /\ (Put(Journal, Record(n)) \/ Put(Journal, Torn))
    BY <1>1, <1>5 DEF Commit
  <2> QED
    BY <1>1, <1>2, <2>1, Places, PutOver
<1> QED
  BY <1>3, <1>4, <1>5

LEMMA RemovalsLoseOnlyThePrevious ==
  ASSUME IInv, NEW n \in Attempt, NEW f \in Kept, OnDisk(f), ~ OnDisk(f)',
         DropCandidate(n) \/ DropBackup(n) \/ DropDisplaced(n) \/ DropCopy(n)
  PROVE  MayGo(f)
<1>1. DiskType /\ f # Absent /\ disk' # disk /\ f # Copy(n) /\ Absent \in Files \cup {Absent}
  BY Typed, KeptIs DEF OnDisk
<1>2. CASE DropCandidate(n)
  <2>1. Unused(n) \in Names
    BY Places, OwnPlaces DEF Unused
  <2>2. disk[Unused(n)] = Candidate(n) /\ Put(Unused(n), Absent)
    BY <1>1, <1>2 DEF DropCandidate
  <2>3. Open(n)
    BY <1>2, Undecided DEF DropCandidate, Deciding
  <2> QED
    BY <1>1, <2>1, <2>2, <2>3, PutOver, KeptIs
<1>3. CASE DropBackup(n) \/ DropCopy(n)
  <2>1. disk[Backup] = Copy(n) /\ Put(Backup, Absent)
    BY <1>1, <1>3 DEF DropBackup, DropCopy
  <2> QED
    BY <1>1, <2>1, Places, PutOver
<1>4. CASE DropDisplaced(n)
  <2>1. disk[Staged] = bound[n] /\ Put(Staged, Absent)
    BY <1>1, <1>4 DEF DropDisplaced
  <2>2. completion[n] = "committed"
    BY <1>4, Finished DEF DropDisplaced, Finishing, Open
  <2> QED
    BY <1>1, <2>1, <2>2, Places, PutOver DEF MayGo
<1> QED
  BY <1>2, <1>3, <1>4

LEMMA CleanersLoseOnlyThePrevious ==
  ASSUME IInv, NEW c \in Cleaners, CleanStep(c), NEW f \in Kept, OnDisk(f), ~ OnDisk(f)'
  PROVE  MayGo(f)
<1> DEFINE n == clean[c].of
<1>1. DiskType /\ f # Absent /\ disk' # disk /\ Absent \in Files \cup {Absent}
  BY Typed, KeptIs DEF OnDisk
<1>2. clean[c].at \in Removing
  BY DEF CleanStep, CleanName, CleanFails, Removing
<1>3. n \in Attempt /\ completion[n] = "committed"
  BY <1>2, CleanerAlone DEF Open
<1>4. CASE CleanName(c, Backup, Copy(n), "backup", "displaced")
  <2>1. disk[Backup] \in {Copy(n), Absent} /\ Put(Backup, Absent)
    BY <1>4 DEF CleanName
  <2> QED
    BY <1>1, <1>3, <2>1, Places, PutOver, KeptIs
<1>5. CASE CleanName(c, Aside(n), bound[n], "displaced", "journal")
  <2>1. disk[Aside(n)] \in {bound[n], Absent} /\ Put(Aside(n), Absent)
    BY <1>5 DEF CleanName
  <2> QED
    BY <1>1, <1>3, <2>1, OwnPlaces, PutOver DEF MayGo
<1>6. CASE CleanName(c, Journal, Record(n), "journal", "idle")
  <2>1. disk[Journal] \in {Record(n), Absent} /\ Put(Journal, Absent)
    BY <1>6 DEF CleanName
  <2> QED
    BY <1>1, <1>3, <2>1, Places, PutOver, KeptIs
<1> QED
  BY <1>1, <1>4, <1>5, <1>6 DEF CleanStep, CleanFails

LEMMA StepLosesNothing ==
  ASSUME IInv, Next, NEW f \in Kept, OnDisk(f), ~ OnDisk(f)'
  PROVE  MayGo(f)
<1>1. disk' # disk
  BY DEF OnDisk
<1>2. ASSUME NEW n \in Attempt, UpdateStep(n) \/ UpdaterDies(n) \/ WorkerLocks(n)
      PROVE  MayGo(f)
  <2>1. \/ PrepareBackup(n) \/ Stage(n) \/ Commit(n)
        \/ Publish(n) \/ SwapBack(n) \/ FillEmpty(n)
        \/ DropCandidate(n) \/ DropBackup(n) \/ DropDisplaced(n) \/ DropCopy(n)
    BY <1>1, <1>2 DEF UpdateStep, UpdaterDies, WorkerLocks, Begin, AcquireLease, CheckCurrent,
       Classify, Interrupted, TakeBackCheck, Verify, Rollback, Preserve, SpawnWorker, Exit
  <2> QED
    BY <2>1, ExchangesLoseNothing, WritesLoseNothing, RemovalsLoseOnlyThePrevious
<1>3. ~ StartupLocks /\ \A c \in Cleaners : ~ Revalidate(c) /\ ~ CleanerDies(c)
  BY <1>1 DEF StartupLocks, Revalidate, CleanerDies
<1>4. ASSUME NEW k \in Foreign, OutsideWrite(k)
      PROVE  MayGo(f)
  <2>1. /\ Put(Public, ByOther(k)) /\ overwritten' = overwritten \cup ({disk[Public]} \ {Absent})
    BY <1>4 DEF OutsideWrite
  <2>2. disk[Public] = f /\ f # Absent
    BY <2>1, Outsiders, Places, Typed, PutOver, KeptIs
  <2> QED
    BY <2>1, <2>2 DEF MayGo
<1> QED
  BY <1>2, <1>3, <1>4, CleanersLoseOnlyThePrevious DEF Next

(* No step of any number of updates, cleaners and outside writers loses a   *)
(* file this program did not make for the transaction, but an executable    *)
(* that a committed update replaced (update.rs `replace_candidate_inner`,   *)
(* the restorations, update/cleanup_worker.rs `complete_cleanup`).          *)
THEOREM NoFileIsLost == Spec => NothingLost
<1>1. IInv /\ [Next]_vars =>
        [\A f \in Kept : OnDisk(f) /\ ~ OnDisk(f)' =>
           \/ f \in overwritten'
           \/ \E n \in Attempt : bound[n] = f /\ completion[n] = "committed"]_vars
  <2> SUFFICES ASSUME IInv, Next, NEW f \in Kept, OnDisk(f), ~ OnDisk(f)'
               PROVE  \/ f \in overwritten'
                      \/ \E n \in Attempt : bound[n] = f /\ completion[n] = "committed"
    OBVIOUS
  <2> QED
    BY StepLosesNothing DEF MayGo
<1> QED
  BY <1>1, ReplacementInductive, PTL DEF Spec, NothingLost

=============================================================================
