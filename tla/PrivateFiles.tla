----------------------------- MODULE PrivateFiles -----------------------------
(***************************************************************************)
(* How authority.rs creates, replaces and moves the files of a private root: *)
(* system call by system call, by processes that may die anywhere, on a disk  *)
(* that may lose everything that was not synced.                              *)
(*                                                                          *)
(* A file is an inode with data.  A directory binds names to inodes; what was *)
(* bound before and was not synced may come back after a power failure.       *)
(***************************************************************************)
EXTENDS Integers, Sequences, FiniteSets, FiniteSetsExt

CONSTANTS
    Procs,       \* process ids, reused when a process was restarted
    Paths,       \* the names callers know
    Dir,         \* the directory of a path
    Inodes,      \* numbers, the least free one is taken; bound
    MaxSeq,      \* bound: temporary names per process
    MaxDeaths, MaxOutages, MaxFailures,   \* bounds: deaths, power failures, failed calls
    None

VARIABLES
    file,        \* data of every inode, and whether it was synced
    names,       \* what the names are bound to
    stale,       \* what a power failure may bind a name to instead
    call,        \* the operation each process is in
    seq,         \* NEXT_IMMUTABLE_TEMPORARY, per process
    deaths, outages, failures,
    promised,    \* history: what callers were told is there
    orphans      \* history: temporary names whose process died

disk == <<file, names, stale>>
bounds == <<deaths, outages, failures>>
fvars == <<disk, call, seq, bounds, promised, orphans>>

Torn == <<None>>

Temps == Paths \X Procs \X (0 .. MaxSeq) \X {"immutable", "atomic"}

Calls ==
    [op : {"ensure", "create", "replace", "move"}, path : Paths,
     from : Paths \union {None}, bytes : Seq(Nat),
     step : {"check", "stage", "write", "link", "settle", "unlink", "verify", "rename",
             "rebind", "rebound", "source", "moving", "moved", "retire", "retired",
             "ok", "error"},
     temp : Temps \union {None}, fd : Inodes \union {None}, installed : BOOLEAN]

\* Names are of one kind, and None stands for no value of any kind.
ASSUME FilesAssumption ==
    /\ Inodes \subseteq Nat
    /\ MaxSeq \in Nat /\ MaxDeaths \in Nat /\ MaxOutages \in Nat /\ MaxFailures \in Nat
    /\ Paths \intersect Temps = {}
    /\ None \notin Nat /\ None \notin Seq(Nat)
    /\ None \notin Procs \union Paths \union Temps /\ None \notin Calls

DirOf(n) == IF n \in Temps THEN Dir[n[1]] ELSE Dir[n]

\* f with v at x.
Put(f, x, v) == [y \in DOMAIN f \union {x} |-> IF y = x THEN v ELSE f[y]]

At(n) == IF n \in DOMAIN names THEN names[n] ELSE None
Reads(n) == IF At(n) = None THEN None ELSE file[At(n)].data

\* The inodes that a name, a power failure or a process can still reach.
Reachable ==
    {names[n] : n \in DOMAIN names} \union {s[2] : s \in stale}
        \union {call[p].fd : p \in {q \in Procs : call[q] # None}}

Free == Inodes \ Reachable

-----------------------------------------------------------------------------
(* System calls on directories. *)

Bind(n, i) ==
    /\ names' = Put(names, n, i)
    /\ stale' = stale \union {<<n, At(n)>>}

Unsynced(d) == {s \in stale : DirOf(s[1]) # d}

\* Removes the name n and syncs its directory.
UnbindSynced(n) ==
    /\ names' = [x \in DOMAIN names \ {n} |-> names[x]]
    /\ stale' = Unsynced(DirOf(n))

-----------------------------------------------------------------------------
(* A caller starts an operation. *)

Operation(op, path, from, bytes, step) ==
    [op |-> op, path |-> path, from |-> from, bytes |-> bytes, step |-> step,
     temp |-> None, fd |-> None, installed |-> FALSE]

Ensure(path, bytes) == Operation("ensure", path, None, bytes, "check")
Create(path, bytes) == Operation("create", path, None, bytes, "check")
Replace(path, bytes) == Operation("replace", path, None, bytes, "stage")
Move(from, path, bytes) == Operation("move", path, from, bytes, "source")

Returned(p) == call[p] # None /\ call[p].step \in {"ok", "error"}

Runs(p, step) == call[p] # None /\ call[p].step = step

Goto(p, step) == call' = [call EXCEPT ![p].step = step]

Told(p) ==
    LET c == call[p]
    IN  promised' = promised \union
            {[op |-> c.op, path |-> c.path, bytes |-> c.bytes, inode |-> At(c.path)]}

Error(p) == Goto(p, "error") /\ UNCHANGED promised

-----------------------------------------------------------------------------
(* write_or_verify_immutable and create_private_immutable. *)

\* existing_regular_file_if_present.
CheckPresent(p) ==
    /\ Runs(p, "check")
    /\ Goto(p, IF At(call[p].path) = None THEN "stage"
               ELSE IF call[p].op = "create" THEN "error" ELSE "verify")
    /\ UNCHANGED <<disk, seq, bounds, promised, orphans>>

TempOf(p, n) ==
    <<call[p].path, p, n, IF call[p].op = "replace" THEN "atomic" ELSE "immutable">>

\* A staging file is created under the next name that is free; a replacement
\* takes the next name, and fails when an earlier process of its number left it.
CreateTemporary(p) ==
    /\ Runs(p, "stage")
    /\ LET taken(n) == At(TempOf(p, n)) # None
           next == IF call[p].op = "replace" THEN seq[p]
                   ELSE Min({n \in seq[p] .. MaxSeq : ~taken(n)})
           inode == Min(Free)
       IN  /\ Free # {}
           /\ \E n \in seq[p] .. MaxSeq : call[p].op = "replace" \/ ~taken(n)
           /\ seq' = [seq EXCEPT ![p] = next + 1]
           /\ IF taken(next)
              THEN Goto(p, "error") /\ UNCHANGED disk
              ELSE /\ Bind(TempOf(p, next), inode)
                   /\ file' = [file EXCEPT ![inode] = [data |-> Torn, synced |-> FALSE]]
                   /\ call' = [call EXCEPT ![p].temp = TempOf(p, next),
                                           ![p].fd = inode, ![p].step = "write"]
    /\ UNCHANGED <<bounds, promised, orphans>>

\* Written, made private and synced through the descriptor, and read again.
WriteTemporary(p) ==
    /\ Runs(p, "write")
    /\ file' = [file EXCEPT ![call[p].fd] = [data |-> call[p].bytes, synced |-> TRUE]]
    /\ Goto(p, IF call[p].op = "replace" THEN "rename" ELSE "link")
    /\ UNCHANGED <<names, stale, seq, bounds, promised, orphans>>

\* A producer or a write that fails takes its own file away again.
WriteFails(p) ==
    /\ Runs(p, "write")
    /\ failures < MaxFailures
    /\ failures' = failures + 1
    /\ UnbindSynced(call[p].temp)
    /\ Goto(p, "error")
    /\ UNCHANGED <<file, seq, deaths, outages, promised, orphans>>

\* A rename in the place of the hard link.
LinkOverDestination(p) ==
    /\ Runs(p, "link")
    /\ Bind(call[p].path, call[p].fd)
    /\ call' = [call EXCEPT ![p].step = "settle", ![p].installed = TRUE]
    /\ UNCHANGED <<file, seq, bounds, promised, orphans>>

\* A hard link cannot replace a name that is there.
LinkDestination(p) ==
    /\ Runs(p, "link")
    /\ IF At(call[p].path) = None
       THEN /\ Bind(call[p].path, call[p].fd)
            /\ call' = [call EXCEPT ![p].step = "settle", ![p].installed = TRUE]
       ELSE UNCHANGED <<names, stale>> /\ Goto(p, "unlink")
    /\ UNCHANGED <<file, seq, bounds, promised, orphans>>

\* The installed file and its directory are synced.
SettleInstalled(p) ==
    /\ Runs(p, "settle")
    /\ stale' = Unsynced(Dir[call[p].path])
    /\ Goto(p, "unlink")
    /\ UNCHANGED <<file, names, seq, bounds, promised, orphans>>

\* A sync that fails: the staging file is still removed, the caller is told.
SettleFails(p) ==
    /\ Runs(p, "settle")
    /\ failures < MaxFailures
    /\ failures' = failures + 1
    /\ UnbindSynced(call[p].temp)
    /\ Goto(p, "error")
    /\ UNCHANGED <<file, seq, deaths, outages, promised, orphans>>

\* The staging name goes on every outcome; its directory is synced with it.
UnlinkTemporary(p) ==
    /\ Runs(p, "unlink")
    /\ UnbindSynced(call[p].temp)
    /\ Goto(p, IF call[p].op = "ensure" \/ call[p].installed THEN "verify" ELSE "error")
    /\ UNCHANGED <<file, seq, bounds, promised, orphans>>

\* verify_immutable_content; what was installed or moved is promised for good.
VerifyContent(p) ==
    /\ Runs(p, "verify")
    /\ IF Reads(call[p].path) = call[p].bytes
       THEN /\ Goto(p, "ok")
            /\ IF call[p].installed THEN Told(p) ELSE UNCHANGED promised
       ELSE Error(p)
    /\ UNCHANGED <<disk, seq, bounds, orphans>>

-----------------------------------------------------------------------------
(* replace_private_file_atomic. *)

RenameOver(p) ==
    /\ Runs(p, "rename")
    /\ LET c == call[p]
       IN  /\ names' = Put([x \in DOMAIN names \ {c.temp} |-> names[x]], c.path, c.fd)
           /\ stale' = stale \union {<<c.path, At(c.path)>>, <<c.temp, c.fd>>}
    /\ Goto(p, "rebind")
    /\ UNCHANGED <<file, seq, bounds, promised, orphans>>

\* The name still leads to the inode that was renamed, and so it does after
\* the file was synced; the directory is synced last.
VerifyRenamed(p) ==
    /\ Runs(p, "rebind")
    /\ Goto(p, IF At(call[p].path) = call[p].fd THEN "rebound" ELSE "error")
    /\ UNCHANGED <<disk, seq, bounds, promised, orphans>>

SettleRenamedLazily(p) ==
    /\ Runs(p, "rebound")
    /\ Goto(p, IF At(call[p].path) = call[p].fd THEN "ok" ELSE "error")
    /\ UNCHANGED <<disk, seq, bounds, promised, orphans>>

SettleRenamed(p) ==
    /\ Runs(p, "rebound")
    /\ IF At(call[p].path) = call[p].fd
       THEN stale' = Unsynced(Dir[call[p].path]) /\ Goto(p, "ok")
       ELSE UNCHANGED stale /\ Goto(p, "error")
    /\ UNCHANGED <<file, names, seq, bounds, promised, orphans>>

\* A call that fails after the rename: the new content stays.
RenamedFails(p) ==
    /\ Runs(p, "rebind") \/ Runs(p, "rebound")
    /\ failures < MaxFailures
    /\ failures' = failures + 1
    /\ Goto(p, "error")
    /\ UNCHANGED <<disk, seq, deaths, outages, promised, orphans>>

-----------------------------------------------------------------------------
(* move_private_file_transactional. *)

\* A source that is gone was moved by an earlier attempt.
OpenSource(p) ==
    /\ Runs(p, "source")
    /\ LET c == call[p]
       IN  call' = [call EXCEPT
               ![p].installed = TRUE,
               ![p].fd = At(c.from),
               ![p].step = IF At(c.from) = None THEN "verify"
                           ELSE IF Reads(c.from) # c.bytes THEN "error" ELSE "moving"]
    /\ UNCHANGED <<disk, seq, bounds, promised, orphans>>

\* Another file at the destination is a failure even with the same content.
LinkMoved(p) ==
    /\ Runs(p, "moving")
    /\ LET c == call[p]
       IN  CASE At(c.path) = None -> Bind(c.path, c.fd) /\ Goto(p, "moved")
             [] At(c.path) = c.fd -> UNCHANGED <<names, stale>> /\ Goto(p, "moved")
             [] OTHER -> UNCHANGED <<names, stale>> /\ Goto(p, "error")
    /\ UNCHANGED <<file, seq, bounds, promised, orphans>>

SettleMoved(p) ==
    /\ Runs(p, "moved")
    /\ file' = [file EXCEPT ![call[p].fd].synced = TRUE]
    /\ stale' = Unsynced(Dir[call[p].path])
    /\ Goto(p, "retire")
    /\ UNCHANGED <<names, seq, bounds, promised, orphans>>

\* The source is removed if it still is the file that was linked.
UnlinkSource(p) ==
    /\ Runs(p, "retire")
    /\ LET c == call[p]
       IN  IF At(c.from) = c.fd
           THEN /\ names' = [x \in DOMAIN names \ {c.from} |-> names[x]]
                /\ stale' = stale \union {<<c.from, c.fd>>}
                /\ Goto(p, "retired")
           ELSE UNCHANGED <<names, stale>> /\ Goto(p, "error")
    /\ UNCHANGED <<file, seq, bounds, promised, orphans>>

SettleSource(p) ==
    /\ Runs(p, "retired")
    /\ stale' = Unsynced(Dir[call[p].from])
    /\ Goto(p, "verify")
    /\ UNCHANGED <<file, names, seq, bounds, promised, orphans>>

-----------------------------------------------------------------------------
(* Deaths, which release every lock, and power failures. *)

Litter(ps) == {call[p].temp : p \in {q \in ps : call[q] # None}} \ {None}

Die(p) ==
    /\ call[p] # None
    /\ deaths < MaxDeaths
    /\ deaths' = deaths + 1
    /\ orphans' = orphans \union Litter({p})
    /\ call' = [call EXCEPT ![p] = None]
    /\ seq' = [seq EXCEPT ![p] = 0]
    /\ UNCHANGED <<disk, outages, failures, promised>>

\* What a name may be bound to after a power failure.
Possible(n) == {At(n)} \union {s[2] : s \in {x \in stale : x[1] = n}}

PowerFailure ==
    /\ outages < MaxOutages
    /\ outages' = outages + 1
    /\ orphans' = orphans \union Litter(Procs) \union ({s[1] : s \in stale} \ Paths)
    /\ LET touched == {s[1] : s \in stale}
           all == DOMAIN names \union touched
       IN  \E found \in [touched -> UNION {Possible(n) : n \in touched}] :
               /\ \A n \in touched : found[n] \in Possible(n)
               /\ LET bound(n) == IF n \in touched THEN found[n] ELSE names[n]
                  IN  names' = [n \in {x \in all : bound(x) # None} |-> bound(n)]
    /\ stale' = {}
    /\ file' = [i \in Inodes |-> IF file[i].synced THEN file[i]
                                 ELSE [data |-> Torn, synced |-> TRUE]]
    /\ call' = [p \in Procs |-> None]
    /\ seq' = [p \in Procs |-> 0]
    /\ UNCHANGED <<deaths, failures, promised>>

-----------------------------------------------------------------------------
SystemCall(p) ==
    \/ CheckPresent(p) \/ CreateTemporary(p) \/ WriteTemporary(p) \/ WriteFails(p)
    \/ LinkDestination(p) \/ SettleInstalled(p) \/ SettleFails(p) \/ UnlinkTemporary(p)
    \/ VerifyContent(p)
    \/ RenameOver(p) \/ VerifyRenamed(p) \/ SettleRenamed(p) \/ RenamedFails(p)
    \/ OpenSource(p) \/ LinkMoved(p) \/ SettleMoved(p) \/ UnlinkSource(p)
    \/ SettleSource(p)

\* The given names and data are there, synced.
FilesInit(given) ==
    /\ names = [n \in {given[i][1] : i \in DOMAIN given} |->
                    CHOOSE i \in DOMAIN given : given[i][1] = n]
    /\ file = [i \in Inodes |-> IF i \in DOMAIN given
                               THEN [data |-> given[i][2], synced |-> TRUE]
                               ELSE [data |-> Torn, synced |-> FALSE]]
    /\ stale = {}
    /\ call = [p \in Procs |-> None]
    /\ seq = [p \in Procs |-> 0]
    /\ deaths = 0 /\ outages = 0 /\ failures = 0
    /\ promised = {} /\ orphans = {}

-----------------------------------------------------------------------------
FilesTypeOK ==
    /\ file \in [Inodes -> [data : {Torn} \union Seq(Nat), synced : BOOLEAN]]
    /\ DOMAIN names \subseteq Paths \union Temps
    /\ \A n \in DOMAIN names : names[n] \in Inodes
    /\ stale \subseteq (Paths \union Temps) \X (Inodes \union {None})
    /\ call \in [Procs -> {None} \union Calls]
    /\ seq \in [Procs -> 0 .. MaxSeq + 1]
    /\ deaths \in 0 .. MaxDeaths /\ outages \in 0 .. MaxOutages
    /\ failures \in 0 .. MaxFailures
    /\ promised \subseteq [op : {"ensure", "create", "move"}, path : Paths,
                           bytes : Seq(Nat), inode : Inodes]
    /\ orphans \subseteq Temps

-----------------------------------------------------------------------------
(* Safety. *)

\* Whatever a power failure leaves of the names callers know, none of them ever
\* leads to a file that was not written and synced in full.
NothingTorn ==
    \A n \in Paths : \A i \in Possible(n) \ {None} :
        file[i].synced /\ file[i].data # Torn

\* What the caller of an immutable writer or of a move was told is there, under
\* that inode, from then on: no other writer replaces it, and no death and no
\* power failure takes it away.
PromisesKept ==
    \A x \in promised :
        Possible(x.path) = {x.inode} /\ file[x.inode].data = x.bytes

\* While a file is moved it can be found under one of its two names, also after
\* a power failure.
MoveKeeps(from, to, bytes) ==
    \E n \in {from, to} :
        \A i \in Possible(n) : i # None /\ file[i].data = bytes

\* Only a process that died leaves a temporary name behind.
NoLitter ==
    \A t \in DOMAIN names \ Paths :
        t \in orphans \/ \E p \in Procs : call[p] # None /\ call[p].temp = t

=============================================================================
