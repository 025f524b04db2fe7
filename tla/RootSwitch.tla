----------------------------- MODULE RootSwitch -----------------------------
(***************************************************************************)
(* A change of the root folder while the program runs: handleSelectAvid    *)
(* and handlePostConfig of api.go, Save of config.go, reconfigure and the  *)
(* automode closure of main.go.  The root is kept in five places, changed  *)
(* by several requests at once, and a pull that began under one root may   *)
(* end under another.                                                      *)
(*                                                                         *)
(* One received media file stands for the folder 1-<author>/ of each root. *)
(***************************************************************************)
EXTENDS Integers

CONSTANTS
  Roots,    \* the Avid folders the user can choose
  First,    \* the root of the start
  Req,      \* requests that can be served at once
  Faults,   \* "watcher": watcher.New fails;  "db": a statement of the reconciliation
  Kinds,    \* "select": POST /config/select-avid;  "post": POST /config
  Empty,    \* a file of no bytes
  Mixed,    \* a file with the bytes of two writers
  NoFile, None

ASSUME RootSwitchAssumption ==
  /\ First \in Roots
  /\ Kinds \subseteq {"select", "post"}
  /\ {Empty, Mixed} \cap Roots = {}
  /\ NoFile \notin Roots \cup {Empty, Mixed}
  /\ None \notin Roots \cup Req

VARIABLES
  config,      \* what config.json holds
  tmp,         \* what config.json.tmp holds
  req,         \* the local state of each request
  lock,        \* who holds rootMu of main.run
  workers,     \* the root of the running root workers
  reconcile,   \* how far their reconciliation is: "stat", "delete", "done"
  skipped,     \* history: the last reconciliation did not happen, or not to its end
  tRoot,       \* Transport.root
  mainRoot,    \* the variable *root, two words that are written one by one
  sRoot,       \* Server.root
  detect,      \* automode's closure while it reads *root, and what it got
  pull,        \* the root a running Pull writes to
  onDisk,      \* the roots whose folder has the received file
  row,         \* whether the manifest has the row of the received file
  clean        \* history: no request met another request or a running pull

files == <<config, tmp>>
roots == <<workers, tRoot, mainRoot, sRoot>>
recon == <<reconcile, skipped>>
received == <<pull, onDisk, row>>
vars == <<config, tmp, req, lock, workers, reconcile, skipped, tRoot, mainRoot, sRoot,
          detect, pull, onDisk, row, clean>>

\* "at" says where the file a request has open is now.
Idle == [pc |-> "idle", kind |-> "select", root |-> None, at |-> "orphan"]

Word(r) == [ptr |-> r, len |-> r]

Init ==
  /\ config = First /\ tmp = NoFile
  /\ req = [q \in Req |-> Idle]
  /\ lock = None
  /\ \/ workers = First /\ reconcile = "stat" /\ skipped = FALSE
     \/ "watcher" \in Faults /\ workers = None /\ reconcile = "done" /\ skipped = TRUE
  /\ tRoot = First /\ mainRoot = Word(First) /\ sRoot = First
  /\ detect = [pc |-> "idle", ptr |-> First, len |-> First]
  /\ pull = None /\ onDisk = {} /\ row = FALSE
  /\ clean = TRUE

Quiet == \A q \in Req : req[q].pc = "idle"

Goto(q, pc) == req' = [req EXCEPT ![q].pc = pc]
Return(q)   == req' = [req EXCEPT ![q] = Idle]

(***************************************************************************)
(* config.Save.                                                            *)
(***************************************************************************)

\* Mutant: config.json itself is rewritten.
OpenConfig(q, kind, r) ==
  /\ req[q].pc = "idle"
  /\ config' = Empty /\ tmp' = Empty
  /\ req' = [req EXCEPT ![q] = [pc |-> "write", kind |-> kind, root |-> r, at |-> "config"]]
  /\ clean' = (clean /\ Quiet /\ pull = None)
  /\ UNCHANGED <<lock, roots, recon, detect, received>>

\* os.WriteFile opens config.json.tmp and empties it.  The requests that have
\* the file open already go on with the same file.
OpenTmp(q, kind, r) ==
  /\ req[q].pc = "idle"
  /\ tmp' = Empty
  /\ req' = [req EXCEPT ![q] = [pc |-> "write", kind |-> kind, root |-> r, at |-> "tmp"]]
  /\ clean' = (clean /\ Quiet /\ pull = None)
  /\ UNCHANGED <<config, lock, roots, recon, detect, received>>

\* Two writers begin at the same place: the longer text keeps its end.
Over(content, root) == IF content = Empty THEN {root} ELSE {root, Mixed}

WriteTmp(q) ==
  /\ req[q].pc = "write"
  /\ Goto(q, "rename")
  /\ tmp'    \in IF req[q].at = "tmp"    THEN Over(tmp, req[q].root)    ELSE {tmp}
  /\ config' \in IF req[q].at = "config" THEN Over(config, req[q].root) ELSE {config}
  /\ UNCHANGED <<lock, roots, recon, detect, received, clean>>

\* Where the open files of the others are after the rename.
Moved(s) ==
  IF s.pc # "write" THEN s
  ELSE [s EXCEPT !.at = IF @ = "tmp" THEN "config" ELSE "orphan"]

RenameTmp(q) ==
  /\ req[q].pc = "rename"
  /\ tmp # NoFile
  /\ config' = tmp
  /\ tmp' = NoFile
  /\ req' = [p \in Req |->
               IF p # q THEN Moved(req[p])
               ELSE IF req[q].kind = "post" THEN Idle
               ELSE [req[q] EXCEPT !.pc = "lock"]]
  /\ UNCHANGED <<lock, roots, recon, detect, received, clean>>

\* Another Save took the file away: the request is answered with an error.
RenameFails(q) ==
  /\ req[q].pc = "rename"
  /\ tmp = NoFile
  /\ Return(q)
  /\ UNCHANGED <<files, lock, roots, recon, detect, received, clean>>

(***************************************************************************)
(* reconfigure, under rootMu of main.run.                                  *)
(***************************************************************************)
Lock(q) ==
  /\ req[q].pc = "lock"
  /\ lock = None
  /\ lock' = q
  /\ Goto(q, "stop")
  /\ UNCHANGED <<files, roots, recon, detect, received, clean>>

\* stop waits for the goroutine that reconciles.
StopWorkers(q) ==
  /\ req[q].pc = "stop"
  /\ reconcile = "done"
  /\ workers' = None
  /\ Goto(q, "transport")
  /\ UNCHANGED <<files, lock, recon, tRoot, mainRoot, sRoot, detect, received, clean>>

\* Mutant: the transport is not told.
SetTransportSkipped(q) ==
  /\ req[q].pc = "transport"
  /\ Goto(q, "ptr")
  /\ UNCHANGED <<files, lock, roots, recon, detect, received, clean>>

SetTransport(q) ==
  /\ req[q].pc = "transport"
  /\ tRoot' = req[q].root
  /\ Goto(q, "ptr")
  /\ UNCHANGED <<files, lock, workers, recon, mainRoot, sRoot, detect, received, clean>>

SetPtr(q) ==
  /\ req[q].pc = "ptr"
  /\ mainRoot' = [mainRoot EXCEPT !.ptr = req[q].root]
  /\ Goto(q, "len")
  /\ UNCHANGED <<files, lock, workers, recon, tRoot, sRoot, detect, received, clean>>

SetLen(q) ==
  /\ req[q].pc = "len"
  /\ mainRoot' = [mainRoot EXCEPT !.len = req[q].root]
  /\ Goto(q, "start")
  /\ UNCHANGED <<files, lock, workers, recon, tRoot, sRoot, detect, received, clean>>

\* startRootWorkers, and the deferred Unlock.
StartWorkers(q) ==
  /\ req[q].pc = "start"
  /\ workers' = req[q].root
  /\ reconcile' = "stat" /\ skipped' = FALSE
  /\ lock' = None
  /\ Goto(q, "server")
  /\ UNCHANGED <<files, tRoot, mainRoot, sRoot, detect, received, clean>>

\* It has no watcher: the scope is over before it began, nothing is reconciled, and
\* the caller does not hear of it.
StartFails(q) ==
  /\ "watcher" \in Faults
  /\ req[q].pc = "start"
  /\ workers' = None
  /\ reconcile' = "done" /\ skipped' = TRUE
  /\ lock' = None
  /\ Goto(q, "server")
  /\ UNCHANGED <<files, tRoot, mainRoot, sRoot, detect, received, clean>>

\* Mutant: the server keeps the old root.
SetServerSkipped(q) ==
  /\ req[q].pc = "server"
  /\ Return(q)
  /\ UNCHANGED <<files, lock, roots, recon, detect, received, clean>>

\* handleSelectAvid again: s.SetRoot, outside rootMu of main.run.
SetServer(q) ==
  /\ req[q].pc = "server"
  /\ sRoot' = req[q].root
  /\ Return(q)
  /\ UNCHANGED <<files, lock, workers, recon, tRoot, mainRoot, detect, received, clean>>

(***************************************************************************)
(* Those who read the root.                                                *)
(***************************************************************************)

\* Mutant: nothing is reconciled after a change of the root.
ReconcileSkipped ==
  /\ workers # None
  /\ reconcile = "stat"
  /\ reconcile' = "done"
  /\ UNCHANGED <<files, req, lock, roots, skipped, detect, received, clean>>

\* The reconciliation deletes the rows whose file is not under its root.
ReconcileStat ==
  /\ workers # None
  /\ reconcile = "stat"
  /\ reconcile' = IF row /\ workers \notin onDisk THEN "delete" ELSE "done"
  /\ UNCHANGED <<files, req, lock, roots, skipped, detect, received, clean>>

ReconcileDelete ==
  /\ workers # None
  /\ reconcile = "delete"
  /\ reconcile' = "done"
  /\ row' = FALSE
  /\ UNCHANGED <<files, req, lock, roots, skipped, detect, pull, onDisk, clean>>

\* AllFilePaths or Delete returns an error: the workers start all the same.
ReconcileFails ==
  /\ "db" \in Faults
  /\ workers # None
  /\ reconcile # "done"
  /\ reconcile' = "done" /\ skipped' = TRUE
  /\ UNCHANGED <<files, req, lock, roots, detect, received, clean>>

\* automode's closure reads *root without rootMu.
DetectPtr ==
  /\ detect.pc = "idle"
  /\ detect' = [detect EXCEPT !.pc = "half", !.ptr = mainRoot.ptr]
  /\ UNCHANGED <<files, req, lock, roots, recon, received, clean>>

DetectLen ==
  /\ detect.pc = "half"
  /\ detect' = [detect EXCEPT !.pc = "idle", !.len = mainRoot.len]
  /\ UNCHANGED <<files, req, lock, roots, recon, received, clean>>

\* Pull computes destDir once, from getRoot.  A media file that is there already
\* is skipped (LanPull!CheckDelta).
PullStarts ==
  /\ pull = None
  /\ tRoot \notin onDisk
  /\ pull' = tRoot
  /\ clean' = (clean /\ Quiet)
  /\ UNCHANGED <<files, req, lock, roots, recon, detect, onDisk, row>>

PullRenames ==
  /\ pull # None
  /\ pull \notin onDisk
  /\ onDisk' = onDisk \cup {pull}
  /\ UNCHANGED <<files, req, lock, roots, recon, detect, pull, row, clean>>

\* The row's path does not say under which root the file is.
PullUpserts ==
  /\ pull # None
  /\ pull \in onDisk
  /\ row' = TRUE
  /\ pull' = None
  /\ UNCHANGED <<files, req, lock, roots, recon, detect, onDisk, clean>>

SaveStep(q) ==
  \/ \E kind \in Kinds, r \in Roots : OpenTmp(q, kind, r)
  \/ WriteTmp(q) \/ RenameTmp(q) \/ RenameFails(q)

ReconfigureStep(q) ==
  \/ Lock(q) \/ StopWorkers(q) \/ SetTransport(q) \/ SetPtr(q) \/ SetLen(q)
  \/ StartWorkers(q) \/ StartFails(q) \/ SetServer(q)

Next ==
  \/ \E q \in Req : SaveStep(q) \/ ReconfigureStep(q)
  \/ ReconcileStat \/ ReconcileDelete \/ ReconcileFails
  \/ DetectPtr \/ DetectLen
  \/ PullStarts \/ PullRenames \/ PullUpserts

Spec == Init /\ [][Next]_vars

(***************************************************************************)
(* Properties.                                                             *)
(***************************************************************************)
Pcs == {"idle", "write", "rename", "lock", "stop", "transport", "ptr", "len",
        "start", "server"}

TypeOK ==
  /\ config \in Roots \cup {Empty, Mixed}
  /\ tmp \in Roots \cup {Empty, Mixed, NoFile}
  /\ req \in [Req -> [pc : Pcs, kind : {"select", "post"}, root : Roots \cup {None},
                      at : {"tmp", "config", "orphan"}]]
  /\ lock \in Req \cup {None}
  /\ workers \in Roots \cup {None}
  /\ reconcile \in {"stat", "delete", "done"} /\ skipped \in BOOLEAN
  /\ tRoot \in Roots /\ sRoot \in Roots
  /\ mainRoot \in [ptr : Roots, len : Roots]
  /\ detect \in [pc : {"idle", "half"}, ptr : Roots, len : Roots]
  /\ pull \in Roots \cup {None}
  /\ onDisk \subseteq Roots
  /\ row \in BOOLEAN
  /\ clean \in BOOLEAN

\* Whatever requests come in together, outside reconfigure the transport, *root
\* and the root workers, if they could start, are at the same root ("Troca atomic",
\* main.go:173).
RuntimeAgrees ==
  lock = None => /\ workers = tRoot \/ (workers = None /\ skipped)
                 /\ mainRoot = Word(tRoot)

\* When no request is under way, the folder the page shows is the one the program
\* works on (api.go:128-129, SetRoot coordinates with the reconfiguration), as
\* long as the user has one request under way at a time.
PageShowsRoot == clean /\ Quiet => sRoot = tRoot

\* A selection that is answered is in effect everywhere and survives a restart:
\* handleSelectAvid saves it, applies it, then tells the server.  (But when
\* watcher.New fails the workers do not start, and the answer does not say so.)
SelectionIsApplied ==
  [][\A q \in Req :
       clean /\ req[q].pc = "server" /\ req'[q].pc = "idle" =>
         /\ config'  = req[q].root
         /\ tRoot'   = req[q].root
         /\ workers' = req[q].root \/ (workers' = None /\ skipped')
         /\ sRoot'   = req[q].root]_vars

\* "Save grava config.json atomicamente" (config.go:47): config.json always holds
\* one root that was chosen, so that a process that ends at any point of a Save
\* starts again with a root,
ConfigIsWhole == config \in Roots

\* and it does as long as no two saves meet.
LoneSaveIsWhole == clean => ConfigIsWhole

\* Nothing is under way between the roots and the manifest.
Stable == Quiet /\ reconcile = "done" /\ pull = None

\* The inventory is "os arquivos .mxf que esse peer tem na pasta" (server.go:31):
\* it names no file that the folder does not have, whatever the root was before,
\* as long as no pull was running when the root changed and the reconciliation came to
\* its end.
InventoryIsOnDisk == clean /\ ~ skipped /\ Stable /\ row => tRoot \in onDisk

(***************************************************************************)
(* What the code does not ensure: TLC finds a counterexample to each (the  *)
(* README names the run, or the run to change).                            *)
(***************************************************************************)

\* "Troca atomic: ... atualiza *root (pra closure do automode Detect ver)"
\* (main.go:173-175): the closure sees one root or the other.
DetectSeesOneRoot == detect.pc = "idle" => detect.ptr = detect.len

\* The inventory names every file the folder has.
InventoryIsComplete == Stable /\ tRoot \in onDisk => row
=============================================================================
