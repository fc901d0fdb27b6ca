-------------------------- MODULE ClientConf_proofs --------------------------
(***************************************************************************)
(* Proofs about ClientConf for any set of processes and of keys.           *)
(***************************************************************************)
EXTENDS ClientConf, TLAPS

----------------------------------------------------------------------------
(* Types                                                                   *)

\* Every step of NewConf, of an exit and of an edit keeps the types.
LEMMA TypeStep == TypeOK /\ [Next]_vars => TypeOK'
<1> SUFFICES ASSUME TypeOK, [Next]_vars PROVE TypeOK'
  OBVIOUS
<1> USE ConfAssumption DEF TypeOK, Points, files, disk, history, Goto, Ends
<1>1. ASSUME NEW p \in Procs, NewFileStore(p) PROVE TypeOK'
  BY <1>1 DEF NewFileStore
<1>2. ASSUME NEW p \in Procs, WritePrivateKey(p) PROVE TypeOK'
  BY <1>2 DEF WritePrivateKey
<1>3. ASSUME NEW p \in Procs, WriteTemp(p) PROVE TypeOK'
  BY <1>3 DEF WriteTemp
<1>4. ASSUME NEW p \in Procs, StoreCreated(p) PROVE TypeOK'
  BY <1>4 DEF StoreCreated, Rename
<1>5. ASSUME NEW p \in Procs, WriteState(p) PROVE TypeOK'
  BY <1>5 DEF WriteState, Rename
<1>6. ASSUME NEW p \in Procs, CreateSpec(p) PROVE TypeOK'
  BY <1>6 DEF CreateSpec
<1>7. ASSUME NEW p \in Procs, WriteSpec(p) PROVE TypeOK'
  BY <1>7 DEF WriteSpec, Rename
<1>8. ASSUME NEW p \in Procs, Connect(p) PROVE TypeOK'
  <2>1. CASE wg[p] # "blank"
    <3>1. <<node[p], wg[p]>> \in (Keys \cup {"empty"}) \X (Keys \cup {"none"})
      BY <2>1
    <3>2. registered' \subseteq (Keys \cup {"empty"}) \X (Keys \cup {"none"})
      BY <1>8, <2>1, <3>1 DEF Connect, LoginNode
    <3> QED
      BY <1>8, <2>1, <3>2 DEF Connect, LoginNode
  <2>2. CASE wg[p] = "blank"
    BY <1>8, <2>2 DEF Connect, LoginNode
  <2> QED
    BY <2>1, <2>2
<1>9. ASSUME NEW p \in Procs, Exit(p) PROVE TypeOK'
  BY <1>9 DEF Exit
<1>10. CASE EditFile
  BY <1>10 DEF EditFile
<1>11. CASE WriteBack
  BY <1>11 DEF WriteBack
<1>12. CASE PowerFails
  BY <1>12 DEF PowerFails, OnDisk
<1>13. CASE UNCHANGED vars
  BY <1>13 DEF vars
<1> QED
  BY <1>1, <1>2, <1>3, <1>4, <1>5, <1>6, <1>7, <1>8, <1>9, <1>10, <1>11, <1>12,
     <1>13
  DEF Next, NewConf

\* The variables keep their types.
THEOREM TypeCorrect == Spec => []TypeOK
<1>1. Init => TypeOK
  BY ConfAssumption DEF Init, TypeOK, Points
<1> QED
  BY <1>1, TypeStep, PTL DEF Spec

----------------------------------------------------------------------------
(* Usable files                                                            *)

\* The disk's copies are usable too, and no process holds the empty key, so
\* that none can write it.
UsableInv ==
    /\ StartsAgain
    /\ ~edited => /\ stateDisk # "garbled"
                  /\ specDisk \notin {"garbled", "blank"}
                  /\ \A p \in Procs : wg[p] # "blank"

LEMMA UsableStep == TypeOK /\ UsableInv /\ [Next]_vars => UsableInv'
<1> SUFFICES ASSUME TypeOK, UsableInv, [Next]_vars PROVE UsableInv'
  OBVIOUS
<1> USE ConfAssumption DEF TypeOK, UsableInv, StartsAgain, files, disk, history
<1>1. ASSUME NEW p \in Procs, NewFileStore(p) PROVE UsableInv'
  BY <1>1 DEF NewFileStore
<1>2. ASSUME NEW p \in Procs, WritePrivateKey(p) PROVE UsableInv'
  BY <1>2 DEF WritePrivateKey
<1>3. ASSUME NEW p \in Procs, WriteTemp(p) PROVE UsableInv'
  BY <1>3 DEF WriteTemp
<1>4. ASSUME NEW p \in Procs, StoreCreated(p) PROVE UsableInv'
  BY <1>4 DEF StoreCreated, Rename
<1>5. ASSUME NEW p \in Procs, WriteState(p) PROVE UsableInv'
  BY <1>5 DEF WriteState, Rename
<1>6. ASSUME NEW p \in Procs, CreateSpec(p) PROVE UsableInv'
  BY <1>6 DEF CreateSpec
<1>7. ASSUME NEW p \in Procs, WriteSpec(p) PROVE UsableInv'
  BY <1>7 DEF WriteSpec, Rename
<1>8. ASSUME NEW p \in Procs, Connect(p) PROVE UsableInv'
  BY <1>8 DEF Connect, LoginNode
<1>9. ASSUME NEW p \in Procs, Exit(p) PROVE UsableInv'
  BY <1>9 DEF Exit
<1>10. CASE EditFile
  BY <1>10 DEF EditFile
<1>11. CASE WriteBack
  BY <1>11 DEF WriteBack
<1>12. CASE PowerFails
  BY <1>12 DEF PowerFails, OnDisk
<1>13. CASE UNCHANGED vars
  BY <1>13 DEF vars
<1> QED
  BY <1>1, <1>2, <1>3, <1>4, <1>5, <1>6, <1>7, <1>8, <1>9, <1>10, <1>11, <1>12,
     <1>13
  DEF Next, NewConf

\* However many processes are killed while they write, and whenever the power
\* fails, the files stay usable.
THEOREM StartsCorrect == Spec => []StartsAgain
<1>1. Init => UsableInv
  BY ConfAssumption DEF Init, UsableInv, StartsAgain
<1>2. UsableInv => StartsAgain
  BY DEF UsableInv
<1> QED
  BY <1>1, <1>2, UsableStep, TypeCorrect, PTL DEF Spec

----------------------------------------------------------------------------
(* One identity                                                            *)

Busy(p) == pc[p] \notin {"off", "run"}

\* What a process that is alone in NewConf knows of the files at each point.
Knows(p) ==
    /\ pc[p] = "initStore" => stateFile = "none" /\ node[p] = "empty"
    /\ pc[p] = "loaded" => node[p] = stateFile
    /\ pc[p] = "writeKey" => stateFile = "empty" /\ node[p] \in Keys
    /\ pc[p] \in {"spec", "writeSpec", "connect"} => node[p] = stateFile /\ node[p] \in Keys
    /\ pc[p] = "writeSpec" => wg[p] \in Keys /\ specFile \in {"none", wg[p]}
    /\ pc[p] = "connect" => wg[p] \in Keys /\ specFile = wg[p]

\* Without overlaps and losses, one process at a time is in NewConf, what it holds in
\* memory agrees with the files, and so does every identity that logged in.
IdentityInv ==
    ~overlapped /\ ~edited /\ ~lost =>
        /\ \A p, q \in Procs : Busy(p) /\ Busy(q) => p = q
        /\ \A p \in Procs : Knows(p)
        /\ \A r \in registered : r = <<stateFile, specFile>> /\ stateFile \in Keys /\ specFile \in Keys

LEMMA IdentityStep == TypeOK /\ UsableInv /\ IdentityInv /\ [Next]_vars => IdentityInv'
<1> SUFFICES ASSUME TypeOK, UsableInv, IdentityInv, [Next]_vars, ~overlapped', ~edited', ~lost'
             PROVE  /\ (\A p, q \in Procs : Busy(p) /\ Busy(q) => p = q)'
                    /\ (\A p \in Procs : Knows(p))'
                    /\ (\A r \in registered : /\ r = <<stateFile, specFile>>
                                              /\ stateFile \in Keys
                                              /\ specFile \in Keys)'
  BY DEF IdentityInv
<1> DEFINE Goal == /\ (\A p, q \in Procs : Busy(p) /\ Busy(q) => p = q)'
                   /\ (\A p \in Procs : Knows(p))'
                   /\ (\A r \in registered : /\ r = <<stateFile, specFile>>
                                             /\ stateFile \in Keys
                                             /\ specFile \in Keys)'
<1> USE ConfAssumption DEF TypeOK, Points, UsableInv, StartsAgain, IdentityInv, Busy, Knows,
                           files, disk, history, Goto, Ends
<1>1. ASSUME NEW p \in Procs, NewFileStore(p) PROVE Goal
  BY <1>1 DEF NewFileStore
<1>2. ASSUME NEW p \in Procs, WritePrivateKey(p) PROVE Goal
  BY <1>2 DEF WritePrivateKey
<1>3. ASSUME NEW p \in Procs, WriteTemp(p) PROVE Goal
  BY <1>3 DEF WriteTemp
<1>4. ASSUME NEW p \in Procs, StoreCreated(p) PROVE Goal
  BY <1>4 DEF StoreCreated, Rename
<1>5. ASSUME NEW p \in Procs, WriteState(p) PROVE Goal
  BY <1>5 DEF WriteState, Rename
<1>6. ASSUME NEW p \in Procs, CreateSpec(p) PROVE Goal
  BY <1>6 DEF CreateSpec
<1>7. ASSUME NEW p \in Procs, WriteSpec(p) PROVE Goal
  BY <1>7 DEF WriteSpec, Rename
<1>8. ASSUME NEW p \in Procs, Connect(p) PROVE Goal
  BY <1>8 DEF Connect, LoginNode
<1>9. ASSUME NEW p \in Procs, Exit(p) PROVE Goal
  BY <1>9 DEF Exit
<1>10. CASE EditFile
  BY <1>10 DEF EditFile
<1>11. CASE WriteBack
  BY <1>11 DEF WriteBack
<1>12. CASE PowerFails
  BY <1>12 DEF PowerFails, OnDisk
<1>13. CASE UNCHANGED vars
  BY <1>13 DEF vars
<1> QED
  BY <1>1, <1>2, <1>3, <1>4, <1>5, <1>6, <1>7, <1>8, <1>9, <1>10, <1>11, <1>12,
     <1>13
  DEF Next, NewConf

\* Processes that start one after the other log in under one identity.
THEOREM IdentityCorrect == Spec => []OneIdentity
<1>1. Init => UsableInv /\ IdentityInv
  BY ConfAssumption DEF Init, UsableInv, StartsAgain, IdentityInv, Busy, Knows
<1>2. IdentityInv => OneIdentity
  BY DEF IdentityInv, OneIdentity
<1> QED
  BY <1>1, <1>2, UsableStep, IdentityStep, TypeCorrect, PTL DEF Spec

----------------------------------------------------------------------------
(* Settled keys                                                            *)

LEMMA SettledStep ==
    ASSUME TypeOK, [Next]_vars, Settled, ~EditFile, ~(PowerFails /\ ~OnDisk)
    PROVE  Settled' /\ UNCHANGED files
<1> USE ConfAssumption DEF TypeOK, Points, Settled, files, disk, history, Goto, Ends
<1> DEFINE Goal == Settled' /\ UNCHANGED files
<1>1. ASSUME NEW p \in Procs, NewFileStore(p) PROVE Goal
  BY <1>1 DEF NewFileStore
<1>2. ASSUME NEW p \in Procs, WritePrivateKey(p) PROVE Goal
  BY <1>2 DEF WritePrivateKey
<1>3. ASSUME NEW p \in Procs, WriteTemp(p) PROVE Goal
  BY <1>3 DEF WriteTemp
<1>4. ASSUME NEW p \in Procs, StoreCreated(p) PROVE Goal
  BY <1>4 DEF StoreCreated, Rename
<1>5. ASSUME NEW p \in Procs, WriteState(p) PROVE Goal
  BY <1>5 DEF WriteState, Rename
<1>6. ASSUME NEW p \in Procs, CreateSpec(p) PROVE Goal
  BY <1>6 DEF CreateSpec
<1>7. ASSUME NEW p \in Procs, WriteSpec(p) PROVE Goal
  BY <1>7 DEF WriteSpec, Rename
<1>8. ASSUME NEW p \in Procs, Connect(p) PROVE Goal
  BY <1>8 DEF Connect, LoginNode
<1>9. ASSUME NEW p \in Procs, Exit(p) PROVE Goal
  BY <1>9 DEF Exit
<1>10. CASE WriteBack
  BY <1>10 DEF WriteBack
<1>11. CASE PowerFails /\ OnDisk
  BY <1>11 DEF PowerFails, OnDisk
<1>12. CASE UNCHANGED vars
  BY <1>12 DEF vars
<1> QED
  BY <1>1, <1>2, <1>3, <1>4, <1>5, <1>6, <1>7, <1>8, <1>9, <1>10, <1>11, <1>12
  DEF Next, NewConf

\* Once settled, the keys never change, whatever starts, crashes or rewrites,
\* short of an edit or of a power failure that undoes a rename.
THEOREM StaysCorrect == Spec => IdentityStays
<1> DEFINE Stays == \/ EditFile
                    \/ PowerFails /\ ~OnDisk
                    \/ Settled' /\ UNCHANGED files
<1>1. ASSUME TypeOK, [Next]_vars, Settled PROVE Stays
  BY <1>1, SettledStep
<1>2. TypeOK /\ [Next]_vars => [Settled => Stays]_vars
  BY <1>1
<1> QED
  BY <1>2, TypeCorrect, PTL DEF Spec, IdentityStays
=============================================================================
