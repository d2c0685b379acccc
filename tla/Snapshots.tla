----------------------------- MODULE Snapshots -----------------------------
(***************************************************************************)
(* Saved workspaces (src/src/workspace.rs): a session is captured,         *)
(* checked, written to a temporary file, synced and renamed over its path; *)
(* it is read back, migrated, checked and brought to life.  Two processes  *)
(* write the same path: the daemon and `ezpn upgrade-snapshot`.  Either    *)
(* may die between any two steps, and so may the machine.                  *)
(***************************************************************************)
EXTENDS Naturals, Sequences, SequencesExt, FiniteSetsExt

CONSTANTS
    Sessions,     \* the live sessions users make: [at, cur, stored]
    Found,        \* what the path may hold before the first save
    PersistAll,   \* [global] persist_scrollback
    MaxTabs,      \* bound of workspace.rs: tabs of a snapshot (100)
    MaxRows,      \* bound of workspace.rs: rows of a saved history (200 000)
    MaxSaves      \* bound: saves of a behaviour

\* The fields of a tab, of a live session and of a document of the current format.
IsTab(t) == t = [ids |-> t.ids, next |-> t.next, active |-> t.active, zoom |-> t.zoom,
                 panes |-> t.panes]
IsSession(s) ==
    /\ s.stored \in Seq(ToSet(s.stored)) /\ s.at \in 1 .. Len(s.stored) + 1
    /\ IsTab(s.cur) /\ \A k \in 1 .. Len(s.stored) : IsTab(s.stored[k])
HasTabs(doc) == doc.tabs \in Seq(ToSet(doc.tabs))

Writers == {"daemon", "cli"}
Path == <<"path", 0>>
Temps == Writers \X (0 .. MaxSaves)   \* path.tmp.<pid>.<counter>
Nothing == [is |-> "nothing"]
Torn == [is |-> "torn"]
Version == 3

ASSUME SnapshotAssumption ==
    /\ MaxSaves \in Nat
    /\ \A s \in Sessions : IsSession(s)
    /\ \A doc \in Found \ {Nothing, Torn} : doc.ver = 1 \/ HasTabs(doc)

VARIABLES
    live,      \* the daemon's session
    files,     \* file name -> what a reader would find
    older,     \* the entry of the path before the last rename
    synced,    \* the files whose bytes have reached the disk
    saver,     \* writer -> [pc, doc, tmp]
    counter,   \* writer -> NEXT_TEMP
    saves,     \* bound: saves begun
    captured   \* history: the session of every document written by the daemon

snapVars == <<live, files, older, synced, saver, counter, saves, captured>>

-----------------------------------------------------------------------------
(* From a session to a document.  A tab has the leaves of its layout (ids), *)
(* next_id, the active and the zoomed pane ({} or a singleton) and the      *)
(* panes map; a pane has its command, whether it is snapshot_sensitive,     *)
(* the override of persist_scrollback and the lines of its terminal.        *)

NoRows == [rows |-> 0, claim |-> 0]    \* scrollback: None
PlainShell(id) == [id |-> id, launch |-> "shell", blob |-> NoRows]

\* snapshot_panes: one entry per leaf; a leaf without process is a shell.
SnapshotPanes(tab) ==
    [i \in DOMAIN tab.ids |->
       LET id == tab.ids[i] IN
       IF id \notin DOMAIN tab.panes \/ tab.panes[id].sensitive THEN PlainShell(id)
       ELSE [id |-> id, launch |-> tab.panes[id].launch, blob |-> NoRows]]

TabDoc(tab) == [ids |-> tab.ids, next |-> tab.next, active |-> tab.active,
                zoom |-> tab.zoom, panes |-> SnapshotPanes(tab)]

\* from_live: the active tab is unpacked, the others are stored without it.
FromLive(s) ==
    [ver  |-> Version, at |-> s.at,
     tabs |-> [i \in 1 .. Len(s.stored) + 1 |->
                 TabDoc(CASE i = s.at -> s.cur
                          [] i < s.at -> s.stored[i]
                          [] OTHER    -> s.stored[i - 1])]]

Persisted(pane) == IF pane.keep = "default" THEN PersistAll ELSE pane.keep = "yes"

\* capture_tab_scrollback.
CaptureTab(doc, tab) ==
    [doc EXCEPT !.panes = [i \in DOMAIN @ |->
        LET p == @[i] IN
        IF p.id \notin DOMAIN tab.panes THEN [p EXCEPT !.blob = NoRows]
        ELSE IF tab.panes[p.id].sensitive THEN PlainShell(p.id)
        ELSE IF ~Persisted(tab.panes[p.id]) THEN [p EXCEPT !.blob = NoRows]
        ELSE [p EXCEPT !.blob = [rows  |-> tab.panes[p.id].rows,
                                 claim |-> tab.panes[p.id].rows]]]]

\* encode_bincode_gz refuses a history that is too long, and the capture fails.
Encodes(tab) ==
    \A id \in ToSet(tab.ids) \cap DOMAIN tab.panes :
        ~tab.panes[id].sensitive /\ Persisted(tab.panes[id]) => tab.panes[id].rows <= MaxRows

\* Mutant of Logical: the gap of the active tab is forgotten.
LogicalSame(s, stored) == stored

\* The place in the document of a stored tab.
Logical(s, stored) == IF stored < s.at THEN stored ELSE stored + 1

\* capture_snapshot: the active tab, then the stored ones in order.
Capture(s) ==
    LET doc == FromLive(s)
        upto[k \in 0 .. Len(s.stored)] ==
            IF k = 0 THEN [doc EXCEPT !.tabs[s.at] = CaptureTab(@, s.cur)]
            ELSE [upto[k - 1] EXCEPT !.tabs[Logical(s, k)] = CaptureTab(@, s.stored[k])]
    IN  upto[Len(s.stored)]
Captures(s) == Encodes(s.cur) /\ \A k \in DOMAIN s.stored : Encodes(s.stored[k])

-----------------------------------------------------------------------------
(* From a document to a session.                                           *)

IsSupported(ver) == ver \in 1 .. Version

PaneIds(tab) == [i \in DOMAIN tab.panes |-> tab.panes[i].id]

BoundsOk(blob) == blob.rows <= MaxRows

\* WorkspaceSnapshot::validate.
Validate(doc) ==
    /\ IsSupported(doc.ver)
    /\ Len(doc.tabs) \in 1 .. MaxTabs
    /\ \A t \in ToSet(doc.tabs) :
          /\ IsInjective(PaneIds(t)) /\ IsInjective(t.ids)
          /\ ToSet(PaneIds(t)) = ToSet(t.ids)
          /\ \A id \in ToSet(t.ids) : id < t.next
          /\ t.active \in ToSet(t.ids)
          /\ t.zoom \subseteq ToSet(t.ids)
          /\ \A p \in ToSet(t.panes) : BoundsOk(p.blob)
    /\ doc.at \in DOMAIN doc.tabs

\* A first-version document is flat: one tab, commands without anything else.
MigrateV1(doc) ==
    [ver |-> Version, at |-> 1,
     tabs |-> <<[ids |-> doc.ids, next |-> doc.next, active |-> doc.active, zoom |-> {},
                 panes |-> [i \in DOMAIN doc.panes |->
                              [doc.panes[i] EXCEPT !.blob = NoRows]]]>>]
MigrateV2(doc) == [doc EXCEPT !.ver = Version]

Parses(doc) == doc \notin {Nothing, Torn} /\ IsSupported(doc.ver)
Parse(doc) == CASE doc.ver = 1 -> MigrateV1(doc) [] doc.ver = 2 -> MigrateV2(doc) [] OTHER -> doc

\* decode: what is inflated has to be what the blob claims.
Decodes(blob) == BoundsOk(blob) /\ blob.rows = blob.claim

\* load_snapshot_with_meta.
Loads(file) ==
    /\ Parses(file) /\ Validate(Parse(file))
    /\ \A t \in ToSet(Parse(file).tabs) : \A p \in ToSet(t.panes) : Decodes(p.blob)

\* spawn_snapshot_panes: a process per entry, its history replayed before it.
RestoreTab(t) ==
    [ids |-> t.ids, next |-> t.next, active |-> t.active, zoom |-> t.zoom,
     panes |-> [id \in ToSet(t.ids) |->
                  LET p == CHOOSE q \in ToSet(t.panes) : q.id = id
                  IN  [launch |-> p.launch, sensitive |-> FALSE, keep |-> "default",
                       rows |-> p.blob.rows]]]

Restore(doc) == [at |-> doc.at, cur |-> RestoreTab(doc.tabs[doc.at]),
                 stored |-> [k \in 1 .. Len(doc.tabs) - 1 |->
                               RestoreTab(doc.tabs[IF k < doc.at THEN k ELSE k + 1])]]

-----------------------------------------------------------------------------
Idle == [pc |-> "idle"]

SnapInit ==
    /\ live \in Sessions
    /\ \E doc \in Found :
          /\ files = [f \in {Path} \cup Temps |-> IF f = Path THEN doc ELSE Nothing]
          /\ older = doc
          /\ captured = {[doc |-> doc, of |-> Nothing]}
    /\ synced = {Path}
    /\ saver = [w \in Writers |-> Idle]
    /\ counter = [w \in Writers |-> 0]
    /\ saves = 0

\* What users do between two saves.
SessionChanges ==
    /\ live' \in Sessions \ {live}
    /\ UNCHANGED <<files, older, synced, saver, counter, saves, captured>>

Begin(w, doc, of) ==
    /\ saver[w] = Idle /\ saves < MaxSaves
    /\ Validate(doc)
    /\ saver' = [saver EXCEPT ![w] = [pc |-> "create", doc |-> doc]]
    /\ saves' = saves + 1
    /\ captured' = captured \cup {[doc |-> doc, of |-> of]}
    /\ UNCHANGED <<live, files, older, synced, counter>>

\* Auto-save, and the control command: a capture that fails saves nothing.
SaveSession == Captures(live) /\ Begin("daemon", Capture(live), live)

\* upgrade-snapshot in place.
Upgrade ==
    /\ Loads(files[Path])
    /\ \E c \in captured : c.doc = files[Path] /\ Begin("cli", Parse(files[Path]), c.of)

\* create_new takes the first name of this process that no file has: one that
\* crashed with the same pid may have left some behind.
CreateTemp(w) ==
    /\ saver[w].pc = "create"
    /\ LET free == {n \in counter[w] .. MaxSaves : files[<<w, n>>] = Nothing}
           tmp == <<w, Min(free)>>
       IN  /\ files' = [files EXCEPT ![tmp] = Torn]
           /\ counter' = [counter EXCEPT ![w] = tmp[2] + 1]
           /\ saver' = [saver EXCEPT ![w] = [pc |-> "write", doc |-> @.doc, tmp |-> tmp]]
    /\ UNCHANGED <<live, older, synced, saves, captured>>

\* write_all.
WriteTemp(w) ==
    /\ saver[w].pc = "write"
    /\ files' = [files EXCEPT ![saver[w].tmp] = saver[w].doc]
    /\ saver' = [saver EXCEPT ![w].pc = "sync"]
    /\ UNCHANGED <<live, older, synced, counter, saves, captured>>

\* Mutant of SyncTemp: the file is not flushed to the disk.
SyncSkipped(w) ==
    /\ saver[w].pc = "sync"
    /\ saver' = [saver EXCEPT ![w].pc = "rename"]
    /\ UNCHANGED <<live, files, older, synced, counter, saves, captured>>

\* sync_all.
SyncTemp(w) ==
    /\ saver[w].pc = "sync"
    /\ synced' = synced \cup {saver[w].tmp}
    /\ saver' = [saver EXCEPT ![w].pc = "rename"]
    /\ UNCHANGED <<live, files, older, counter, saves, captured>>

RenameTemp(w) ==
    /\ saver[w].pc = "rename"
    /\ LET tmp == saver[w].tmp IN
       /\ files' = [files EXCEPT ![Path] = files[tmp], ![tmp] = Nothing]
       /\ synced' = (synced \ {tmp, Path}) \cup (IF tmp \in synced THEN {Path} ELSE {})
    /\ older' = files[Path]
    /\ saver' = [saver EXCEPT ![w] = Idle]
    /\ UNCHANGED <<live, counter, saves, captured>>

\* A step fails: the temporary file is removed, if that succeeds.
SaveFails(w) ==
    /\ saver[w] # Idle
    /\ \/ saver[w].pc = "create" /\ UNCHANGED <<files, synced>>
       \/ /\ saver[w].pc # "create"
          /\ \/ /\ files' = [files EXCEPT ![saver[w].tmp] = Nothing]
                /\ synced' = synced \ {saver[w].tmp}
             \/ UNCHANGED <<files, synced>>
    /\ saver' = [saver EXCEPT ![w] = Idle]
    /\ UNCHANGED <<live, older, counter, saves, captured>>

\* The session of the path, at start (--restore) or on request: all of it, or
\* nothing changes.
LoadSession ==
    /\ Loads(files[Path])
    /\ live' = Restore(Parse(files[Path]))
    /\ UNCHANGED <<files, older, synced, saver, counter, saves, captured>>

\* A writer is killed; another with its pid begins to count at 0.
Crash(w) ==
    /\ saver[w] # Idle
    /\ saver' = [saver EXCEPT ![w] = Idle]
    /\ counter' = [counter EXCEPT ![w] = 0]
    /\ UNCHANGED <<live, files, older, synced, saves, captured>>

\* The machine stops: what was not synced may be lost, and so may the last
\* rename, for the directory is not synced.
PowerLoss ==
    /\ \E back \in BOOLEAN, lost \in SUBSET {f \in DOMAIN files \ synced : files[f] # Nothing} :
          files' = [f \in DOMAIN files |->
                      IF f \in lost THEN Torn
                      ELSE IF f = Path /\ back THEN older ELSE files[f]]
    /\ synced' = {f \in DOMAIN files : files[f] # Nothing} \cup {Path}
    /\ saver' = [w \in Writers |-> Idle] /\ counter' = [w \in Writers |-> 0]
    /\ UNCHANGED <<live, older, saves, captured>>

SnapNext ==
    \/ SessionChanges \/ SaveSession \/ Upgrade \/ LoadSession \/ PowerLoss
    \/ \E w \in Writers :
          CreateTemp(w) \/ WriteTemp(w) \/ SyncTemp(w) \/ RenameTemp(w) \/ SaveFails(w) \/ Crash(w)

-----------------------------------------------------------------------------
(* Properties.                                                             *)

\* Whatever step a writer or the machine stops in, the path holds a document
\* that was written for it in whole: the last one or the one before
\* (workspace.rs, save_snapshot_raw).
PathHoldsWhole == files[Path] \in {c.doc : c \in captured}

LeafIds(tab) == ToSet(tab.ids)
Kept(tab, id) == id \in DOMAIN tab.panes /\ ~tab.panes[id].sensitive

\* The session a user expects back.
ExpectedTab(tab) ==
    [tab EXCEPT !.panes = [id \in LeafIds(tab) |->
        [launch    |-> IF Kept(tab, id) THEN tab.panes[id].launch ELSE "shell",
         sensitive |-> FALSE, keep |-> "default",
         rows      |-> IF Kept(tab, id) /\ Persisted(tab.panes[id]) THEN tab.panes[id].rows ELSE 0]]]
Expected(s) == [at |-> s.at, cur |-> ExpectedTab(s.cur),
                stored |-> [k \in DOMAIN s.stored |-> ExpectedTab(s.stored[k])]]

\* A session the daemon saved can be loaded, and what is loaded is what was
\* saved, tab by tab and pane by pane: the active tab is captured apart from
\* the others, and pane ids repeat from tab to tab (server/mod.rs,
\* capture_snapshot; workspace.rs, load_snapshot).
RestoresSession ==
    \A c \in captured : c.of # Nothing /\ c.doc = files[Path] =>
        Loads(files[Path]) /\ Restore(Parse(files[Path])) = Expected(c.of)
=============================================================================
