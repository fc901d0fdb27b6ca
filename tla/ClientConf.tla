----------------------------- MODULE ClientConf -----------------------------
(***************************************************************************)
(* conf.NewConf: the node key in the state file and the WireGuard key in   *)
(* the spec file, which every runetale and runetaled command reads, and    *)
(* creates when they are missing, without a lock between the processes.    *)
(*                                                                         *)
(* A file is what reading it yields: "none" if it does not exist, "empty"  *)
(* for a state file without a key, "garbled" if it does not parse, "blank" *)
(* for a spec file whose key is the empty string, or else the key.  Hosts, *)
(* ports and the name of the interface are left out.                       *)
(***************************************************************************)

CONSTANTS
    Procs,   \* processes that call NewConf, each as often as it likes
    Keys     \* the keys that can be generated: a bound for TLC

ASSUME ConfAssumption == Keys \cap {"none", "empty", "garbled", "blank"} = {}

VARIABLES
    stateFile,   \* DefaultRunetaleClientStateFile
    specFile,    \* DefaultClientConfigFile
    stateDisk,   \* the state file that a power failure would leave
    specDisk,    \* the spec file that a power failure would leave
    used,        \* keys generated so far
    pc,          \* where each process is; "off" when it has ended
    node,        \* the key in its FileStore.cache, "empty" for none
    wg,          \* Spec.WgPrivateKey
    tmp,         \* AtomicWriteFile has its temporary file, written and synced
    registered,  \* pairs of node and WireGuard key that have logged in
    edited,      \* somebody has spoilt one of the files
    overlapped,  \* a NewConf began while another one was under way
    lost         \* a power failure has undone a rename

files   == <<stateFile, specFile>>
disk    == <<stateDisk, specDisk>>
history == <<registered, edited, overlapped, lost>>
vars == <<files, disk, used, pc, node, wg, tmp, history>>

Goto(p, l) == pc' = [pc EXCEPT ![p] = l]

Ends(p) ==
    /\ Goto(p, "off")
    /\ tmp' = [tmp EXCEPT ![p] = FALSE]

----------------------------------------------------------------------------
(* store.FileStore and store.ClientStore                                   *)

\* NewFileStore reads the state file.  One that does not parse is an error.
NewFileStore(p) ==
    /\ pc[p] = "off"
    /\ stateFile # "garbled"
    /\ node' = [node EXCEPT ![p] = IF stateFile = "none" THEN "empty" ELSE stateFile]
    /\ wg' = [wg EXCEPT ![p] = "none"]
    /\ Goto(p, IF stateFile = "none" THEN "initStore" ELSE "loaded")
    /\ overlapped' = (overlapped \/ \E q \in Procs : pc[q] \notin {"off", "run"})
    /\ UNCHANGED <<files, disk, used, tmp, registered, edited, lost>>

\* The key in the cache, or a new one, which enters the cache at once.
WritePrivateKey(p) ==
    /\ pc[p] = "loaded"
    /\ \/ node[p] # "empty" /\ Goto(p, "spec") /\ UNCHANGED <<node, used>>
       \/ /\ node[p] = "empty"
          /\ \E k \in Keys \ used :
                /\ node' = [node EXCEPT ![p] = k]
                /\ used' = used \cup {k}
          /\ Goto(p, "writeKey")
    /\ UNCHANGED <<files, disk, wg, tmp, history>>

----------------------------------------------------------------------------
(* utils.AtomicWriteFile                                                   *)

WriteInPlace(p) ==
    /\ pc[p] \in {"initStore", "writeKey", "writeSpec"}
    /\ ~tmp[p]
    /\ tmp' = [tmp EXCEPT ![p] = TRUE]
    /\ stateFile' = IF pc[p] = "writeSpec" THEN stateFile ELSE "garbled"
    /\ specFile' = IF pc[p] = "writeSpec" THEN "garbled" ELSE specFile
    /\ UNCHANGED <<disk, used, pc, node, wg, history>>

\* A temporary file is written, synced and closed; no file changes yet.
WriteTemp(p) ==
    /\ pc[p] \in {"initStore", "writeKey", "writeSpec"}
    /\ ~tmp[p]
    /\ tmp' = [tmp EXCEPT ![p] = TRUE]
    /\ UNCHANGED <<files, disk, used, pc, node, wg, history>>

\* os.Rename puts the temporary file in place, whatever is there by now.
Rename(p, from, to) ==
    /\ pc[p] = from
    /\ tmp[p]
    /\ tmp' = [tmp EXCEPT ![p] = FALSE]
    /\ Goto(p, to)
    /\ UNCHANGED <<disk, used, node, wg, history>>

StoreCreated(p) ==
    /\ Rename(p, "initStore", "loaded")
    /\ stateFile' = "empty"
    /\ UNCHANGED specFile

WriteStateCacheOnly(p) ==
    /\ Rename(p, "writeKey", "spec")
    /\ UNCHANGED files

WriteState(p) ==
    /\ Rename(p, "writeKey", "spec")
    /\ stateFile' = node[p]
    /\ UNCHANGED specFile

----------------------------------------------------------------------------
(* conf.Spec                                                               *)

CreateSpecAlwaysGenerates(p) ==
    /\ pc[p] = "spec"
    /\ \E k \in Keys \ used :
          /\ wg' = [wg EXCEPT ![p] = k]
          /\ used' = used \cup {k}
    /\ Goto(p, "writeSpec")
    /\ UNCHANGED <<files, disk, node, tmp, history>>

\* The key comes from the file, which is written again in any case.  A file
\* that does not parse is only logged and counts as one with empty fields.
CreateSpec(p) ==
    /\ pc[p] = "spec"
    /\ \/ /\ specFile = "none"
          /\ \E k \in Keys \ used :
                /\ wg' = [wg EXCEPT ![p] = k]
                /\ used' = used \cup {k}
       \/ /\ specFile # "none"
          /\ wg' = [wg EXCEPT ![p] = IF specFile = "garbled" THEN "blank" ELSE specFile]
          /\ UNCHANGED used
    /\ Goto(p, "writeSpec")
    /\ UNCHANGED <<files, disk, node, tmp, history>>

WriteSpec(p) ==
    /\ Rename(p, "writeSpec", "connect")
    /\ specFile' = wg[p]
    /\ UNCHANGED stateFile

----------------------------------------------------------------------------
\* Both keys go to the server, unless the WireGuard key does not parse.
LoginNode(p) ==
    \/ /\ wg[p] # "blank"
       /\ registered' = registered \cup {<<node[p], wg[p]>>}
       /\ Goto(p, "run")
       /\ UNCHANGED tmp
    \/ wg[p] = "blank" /\ Ends(p) /\ UNCHANGED registered

\* The clients are connected, NewConf returns, and the command logs in.
Connect(p) ==
    /\ pc[p] = "connect"
    /\ LoginNode(p)
    /\ UNCHANGED <<files, disk, used, node, wg, edited, overlapped, lost>>

\* The process ends: a call failed, it panicked, it was killed, or it is done.
\* At most a temporary file, which nobody reads, stays behind.
Exit(p) ==
    /\ pc[p] # "off"
    /\ Ends(p)
    /\ UNCHANGED <<files, disk, used, node, wg, history>>

\* Somebody edits a file and leaves it so that it does not parse.
EditFile ==
    /\ \/ stateFile # "none" /\ stateFile' = "garbled" /\ UNCHANGED specFile
       \/ specFile # "none" /\ specFile' = "garbled" /\ UNCHANGED stateFile
    /\ edited' = TRUE
    /\ UNCHANGED <<disk, used, pc, node, wg, tmp, registered, overlapped, lost>>

OnDisk == stateDisk = stateFile /\ specDisk = specFile

\* The system writes a directory back, which AtomicWriteFile does not ask for.
WriteBack ==
    /\ \/ stateDisk' = stateFile /\ UNCHANGED specDisk
       \/ specDisk' = specFile /\ UNCHANGED stateDisk
    /\ UNCHANGED <<files, used, pc, node, wg, tmp, history>>

\* Every process is gone and the files are those on the disk: each of them
\* whole, because its content was synced before the rename.
PowerFails ==
    /\ stateFile' = stateDisk
    /\ specFile' = specDisk
    /\ pc' = [p \in Procs |-> "off"]
    /\ tmp' = [p \in Procs |-> FALSE]
    /\ lost' = (lost \/ ~OnDisk)
    /\ UNCHANGED <<disk, used, node, wg, registered, edited, overlapped>>

----------------------------------------------------------------------------
Init ==
    /\ stateFile = "none"
    /\ specFile = "none"
    /\ stateDisk = "none"
    /\ specDisk = "none"
    /\ used = {}
    /\ pc = [p \in Procs |-> "off"]
    /\ node = [p \in Procs |-> "empty"]
    /\ wg = [p \in Procs |-> "none"]
    /\ tmp = [p \in Procs |-> FALSE]
    /\ registered = {}
    /\ edited = FALSE
    /\ overlapped = FALSE
    /\ lost = FALSE

NewConf(p) ==
    \/ NewFileStore(p)
    \/ WritePrivateKey(p)
    \/ WriteTemp(p)
    \/ StoreCreated(p)
    \/ WriteState(p)
    \/ CreateSpec(p)
    \/ WriteSpec(p)
    \/ Connect(p)

Next ==
    \/ \E p \in Procs : NewConf(p) \/ Exit(p)
    \/ EditFile
    \/ WriteBack
    \/ PowerFails

Spec == Init /\ [][Next]_vars

----------------------------------------------------------------------------
Points == {"off", "initStore", "loaded", "writeKey", "spec", "writeSpec", "connect", "run"}

TypeOK ==
    /\ stateFile \in Keys \cup {"none", "empty", "garbled"}
    /\ specFile \in Keys \cup {"none", "blank", "garbled"}
    /\ stateDisk \in Keys \cup {"none", "empty", "garbled"}
    /\ specDisk \in Keys \cup {"none", "blank", "garbled"}
    /\ used \subseteq Keys
    /\ pc \in [Procs -> Points]
    /\ node \in [Procs -> Keys \cup {"empty"}]
    /\ wg \in [Procs -> Keys \cup {"none", "blank"}]
    /\ tmp \in [Procs -> BOOLEAN]
    /\ registered \subseteq (Keys \cup {"empty"}) \X (Keys \cup {"none"})
    /\ edited \in BOOLEAN
    /\ overlapped \in BOOLEAN
    /\ lost \in BOOLEAN

\* Wherever processes are killed or the power fails while they write, and
\* however many write at once, the next start finds files it can use: the
\* state file parses and the spec file has a key.  (An empty key, once
\* written, refuses every login.)
StartsAgain == ~edited => stateFile # "garbled" /\ specFile \notin {"garbled", "blank"}

\* As long as no two processes were in NewConf at once, the node has logged
\* in under one node key and one WireGuard key only, also when earlier
\* processes were killed before or between the two files.  A power failure
\* keeps the identity unless it comes before both directories are on the disk.
OneIdentity == ~overlapped /\ ~edited /\ ~lost => \A r, s \in registered : r = s

\* Both files have a key, and no process is about to write another one.
Settled ==
    /\ stateFile \in Keys
    /\ specFile \in Keys
    /\ \A p \in Procs :
          /\ pc[p] # "initStore"
          /\ pc[p] \in {"loaded", "writeKey"} => node[p] = stateFile
          /\ pc[p] = "writeSpec" => wg[p] = specFile

\* After a race of first starts the keys settle: once no process that read a
\* file before its key was there is left, neither file ever changes its key,
\* although every later start writes the spec file again.  What does change
\* it is an edit, or a power failure before the directories are on the disk.
IdentityStays ==
    [][Settled => EditFile \/ (PowerFails /\ ~OnDisk) \/ (Settled' /\ UNCHANGED files)]_vars
=============================================================================
