------------------------- MODULE CheckpointActuation -------------------------
(***************************************************************************)
(* How checkpoints, adapters and deltas are read while others may rewrite     *)
(* them in place (weight_actuator.rs, artifact.rs): shards are normalized into *)
(* one checkpoint, a LoRA adapter becomes a dense delta, deltas are combined,   *)
(* and receivers are profiled (model_adaptation.rs).  A checkpoint with a delta *)
(* applied, asked for as such or by a compiled plan (checkpoint_adapter.rs), is *)
(* staged, linked to its path and told in a receipt, which can be authenticated *)
(* later, while other processes may want the same path.                        *)
(*                                                                             *)
(* A file is a sequence of parts (its tensors, or the chunks of a delta) that   *)
(* are read one after the other, each at an instant of its own; a digest of     *)
(* some bytes is the versions of the parts they were read from.  What is        *)
(* written under the private root is named by its content and stays as it is.   *)
(***************************************************************************)
EXTENDS Naturals, SequencesExt

CONSTANTS
    None, Procs,
    Parts,          \* the parts of every file, in physical order
    Versions,
    WeightMap,      \* the shard of every tensor, by version of the index
    Supported,      \* the versions of the adapter's configuration that are supported
    MaxRewrites, MaxDeaths,
    Requests,       \* what may be asked: base digest, output path, and whether by a plan
    Modified,       \* the tensor that the layout updates
    Claims          \* receipts that somebody may come with

\* The files that are named below have parts of their own, None is no content,
\* and a receipt speaks of a path that somebody may ask for.
ASSUME FilesAssumption ==
    /\ {"index", "shard1", "shard2", "base", "adapter", "config", "delta", "delta1", "delta2"}
           \subseteq DOMAIN Parts
    /\ \A f \in DOMAIN Parts : Parts[f] \in Seq(Range(Parts[f])) \ {<<>>}
    /\ Modified \in Range(Parts["base"]) /\ "d" \notin Range(Parts["base"])
    /\ \A f \in {"shard1", "shard2"} : "combined" \notin Range(Parts[f])
    /\ 1 \in Versions /\ None \notin Requests
    /\ None \notin [Range(Parts["base"]) \union {"d"} -> Versions]
    /\ \A r \in Claims : \E q \in Requests : r.output = q.output

VARIABLES disk, rewrites, store, records, admitted, job, deaths, outputs, confirmed

Sources == DOMAIN Parts
PartsOf(f) == Range(Parts[f])

\* What f and g tell together; f goes first.
Merged(f, g) ==
    [x \in DOMAIN f \union DOMAIN g |-> IF x \in DOMAIN f THEN f[x] ELSE g[x]]
Entry(x, y) == [z \in {x} |-> y]

\* Digest of every version of f that is the same throughout.
Whole(f, v) == [t \in PartsOf(f) |-> v]

-----------------------------------------------------------------------------
(* Calls.  A call reads pass after pass; pass holds what the present one has   *)
(* read, seen the digests taken of the files, and values what is worked with.  *)

Idle == [op |-> "none", at |-> "none", pass |-> <<>>, seen |-> <<>>,
         values |-> <<>>, since |-> 0, claim |-> None]

At(p, op, at) == job[p].op = op /\ job[p].at = at

Refuse(p) == job' = [job EXCEPT ![p] = Idle]

Begin(p, op, at, since, claim) ==
    /\ job[p] = Idle
    /\ job' = [job EXCEPT ![p] =
           [Idle EXCEPT !.op = op, !.at = at, !.since = since, !.claim = claim]]

\* What the present pass has read, once it has read one part more of f.
ReadNext(p, f) ==
    LET t == Parts[f][Cardinality(DOMAIN job[p].pass) + 1]
    IN  Merged(job[p].pass, Entry(t, disk[f][t]))

\* The part that was read is one that was authenticated before.
\* (verify_consumed_tensor)
Consumed(pass, authentic) == \A t \in DOMAIN pass : pass[t] = authentic[t]

\* One step of a pass over f, which is refused unless step holds of what it has
\* read so far, and accepted of all of it.
Pass(p, f, step, accepted, then) ==
    LET pass == ReadNext(p, f)
    IN  IF ~step \/ (DOMAIN pass = PartsOf(f) /\ ~accepted) THEN Refuse(p)
        ELSE IF DOMAIN pass = PartsOf(f)
        THEN job' = [job EXCEPT ![p] = [then EXCEPT !.pass = <<>>]]
        ELSE job' = [job EXCEPT ![p].pass = pass]

\* A delta is referred to by the digest of its first version.
Referenced(pass) == Range(pass) = {1}

\* SafeTensorArchive::open, sha256_file and VerifiedDvecReader::open: all of f is
\* read once, and its digest is kept.
OpenFile(p, f, accepted, at) ==
    Pass(p, f, TRUE, accepted,
         [job[p] EXCEPT !.at = at, !.seen = Merged(Entry(f, ReadNext(p, f)), @)])

\* Mutant of ReadTensors: the file is hashed again afterwards, instead of what
\* was read.
ReadThenRehash(p, f, authentic, at) ==
    Pass(p, f, TRUE, disk[f] = authentic,
         [job[p] EXCEPT !.at = at, !.values = Merged(@, ReadNext(p, f))])

\* All of f is read again and every part compared with what it was.
ReadTensors(p, f, authentic, at) ==
    Pass(p, f, Consumed(ReadNext(p, f), authentic), TRUE,
         [job[p] EXCEPT !.at = at, !.values = Merged(@, ReadNext(p, f))])

\* sha256_file: f still is what it was.
Rehash(p, f, at) ==
    Pass(p, f, TRUE, ReadNext(p, f) = job[p].seen[f], [job[p] EXCEPT !.at = at])

-----------------------------------------------------------------------------
(* normalize_sharded_safetensors *)

ReadIndex(p) ==
    /\ At(p, "normalize", "index")
    /\ OpenFile(p, "index", TRUE, "shard1")
    /\ UNCHANGED <<store, records, admitted>>

\* Every tensor of the shards is in the weight map, under its own shard.
Bijective(p, last) ==
    LET map == WeightMap[job[p].seen["index"]["map"]]
    IN  /\ DOMAIN map = PartsOf("shard1") \union PartsOf("shard2")
        /\ \A s \in {"shard1", "shard2"} : \A t \in PartsOf(s) : map[t] = s

OpenShards(p) ==
    /\ \/ At(p, "normalize", "shard1") /\ OpenFile(p, "shard1", TRUE, "shard2")
       \/ At(p, "normalize", "shard2")
              /\ OpenFile(p, "shard2", Bijective(p, ReadNext(p, "shard2")), "copy1")
    /\ UNCHANGED <<store, records, admitted>>

\* Every tensor is copied into the staged checkpoint.
CopyShards(p) ==
    /\ \/ At(p, "normalize", "copy1")
              /\ ReadTensors(p, "shard1", job[p].seen["shard1"], "copy2")
       \/ At(p, "normalize", "copy2")
              /\ ReadTensors(p, "shard2", job[p].seen["shard2"], "install")
    /\ UNCHANGED <<store, records, admitted>>

InstallNormalized(p) ==
    /\ At(p, "normalize", "install")
    /\ store' = store \union {job[p].values}
    /\ job' = [job EXCEPT ![p].at = "record"]
    /\ UNCHANGED <<records, admitted>>

\* validate_normalization_contract
ContractHolds(r) ==
    r.checkpoint \in store /\ DOMAIN r.checkpoint = DOMAIN WeightMap[r.index["map"]]

RecordNormalization(p) ==
    LET seen == job[p].seen
        r == [kind |-> "normalization", index |-> seen["index"],
              shards |-> Merged(seen["shard1"], seen["shard2"]), checkpoint |-> job[p].values]
    IN  /\ At(p, "normalize", "record")
        /\ records' = IF ContractHolds(r) THEN records \union {r} ELSE records
        /\ Refuse(p)
        /\ UNCHANGED <<store, admitted>>

Normalize(p) ==
    \/ Begin(p, "normalize", "index", 0, None) /\ UNCHANGED <<store, records, admitted>>
    \/ ReadIndex(p) \/ OpenShards(p) \/ CopyShards(p)
    \/ InstallNormalized(p) \/ RecordNormalization(p)

-----------------------------------------------------------------------------
(* inspect_linear_readout: the rows of one tensor, and all of it verified.      *)

InspectReadout(p) ==
    \/ Begin(p, "readout", "open", 0, None) /\ UNCHANGED <<store, records, admitted>>
    \/ /\ At(p, "readout", "open") /\ OpenFile(p, "base", TRUE, "read")
       /\ UNCHANGED <<store, records, admitted>>
    \/ /\ At(p, "readout", "read")
       /\ ReadTensors(p, "base", job[p].seen["base"], "answer")
       /\ UNCHANGED <<store, records, admitted>>
    \/ /\ At(p, "readout", "answer")
       /\ records' = records \union
              {[kind |-> "readout", model |-> job[p].seen["base"], weights |-> job[p].values]}
       /\ Refuse(p)
       /\ UNCHANGED <<store, admitted>>

-----------------------------------------------------------------------------
(* combine_content_addressed_dvec: all sources are opened, then read together,  *)
(* and only at the end is what was read compared with what they are called.     *)

\* combination_readers
OpenDeltas(p) ==
    /\ \/ At(p, "combine", "delta1") /\ OpenFile(p, "delta1", Referenced(ReadNext(p, "delta1")), "delta2")
       \/ At(p, "combine", "delta2") /\ OpenFile(p, "delta2", Referenced(ReadNext(p, "delta2")), "stream")
    /\ UNCHANGED <<store, records, admitted>>

\* stream_linear_combination_bytes: a value of every source at a time.
StreamDeltas(p) ==
    LET taken == job[p].values
        next == IF Cardinality(DOMAIN taken) % 2 = 0 THEN "delta1" ELSE "delta2"
        t == Parts[next][Cardinality(DOMAIN taken) \div 2 + 1]
    IN  /\ At(p, "combine", "stream")
        /\ IF DOMAIN taken = PartsOf("delta1") \union PartsOf("delta2")
           THEN job' = [job EXCEPT ![p].at = "finish"]
           ELSE job' = [job EXCEPT ![p].values = Merged(@, Entry(t, disk[next][t]))]
        /\ UNCHANGED <<store, records, admitted>>

\* VerifiedDvecReader::finish of every source, before anything is installed.
FinishDeltas(p) ==
    /\ At(p, "combine", "finish")
    /\ IF Referenced(job[p].values)
       THEN job' = [job EXCEPT ![p].at = "install"]
       ELSE Refuse(p)
    /\ UNCHANGED <<store, records, admitted>>

InstallCombination(p) ==
    /\ At(p, "combine", "install")
    /\ store' = store \union {[combined |-> job[p].values]}
    /\ Refuse(p)
    /\ UNCHANGED <<records, admitted>>

Combine(p) ==
    \/ Begin(p, "combine", "delta1", 0, None) /\ UNCHANGED <<store, records, admitted>>
    \/ OpenDeltas(p) \/ StreamDeltas(p) \/ FinishDeltas(p) \/ InstallCombination(p)

-----------------------------------------------------------------------------
(* import_peft_lora_as_dense_axis: the adapter is inspected, opened again for   *)
(* its factors, and rehashed.                                                   *)

ReadConfig(p) ==
    /\ At(p, "lora", "config")
    /\ OpenFile(p, "config", Range(ReadNext(p, "config")) \subseteq Supported, "base")

InspectInputs(p) ==
    \/ At(p, "lora", "base") /\ OpenFile(p, "base", TRUE, "adapter")
    \/ At(p, "lora", "adapter") /\ OpenFile(p, "adapter", TRUE, "factors")

\* read_model_tensors_f32 opens the adapter anew, and answers for its own open
\* only.
OpenFactors(p) ==
    /\ At(p, "lora", "factors")
    /\ Pass(p, "adapter", TRUE, TRUE,
            [job[p] EXCEPT !.at = "read", !.seen = Merged(Entry("factors", ReadNext(p, "adapter")), @)])

ReadFactors(p) ==
    /\ At(p, "lora", "read")
    /\ ReadTensors(p, "adapter", job[p].seen["factors"], "check")

CheckAdapter(p) == At(p, "lora", "check") /\ Rehash(p, "adapter", "delta")

\* LoraDenseDeltaIter
DenseDelta(factors, config) == [factors |-> factors, config |-> config]

StoreDelta(p) ==
    /\ At(p, "lora", "delta")
    /\ store' = store \union {DenseDelta(job[p].values, job[p].seen["config"])}
    /\ job' = [job EXCEPT ![p].at = "check_base"]
    /\ UNCHANGED <<records, admitted>>

CheckInputs(p) ==
    \/ At(p, "lora", "check_base") /\ Rehash(p, "base", "check_adapter")
    \/ At(p, "lora", "check_adapter") /\ Rehash(p, "adapter", "check_config")
    \/ At(p, "lora", "check_config") /\ Rehash(p, "config", "receipt")

ReceiptOf(p) ==
    [kind |-> "axis", base |-> job[p].seen["base"], adapter |-> job[p].seen["adapter"],
     config |-> job[p].seen["config"],
     delta |-> DenseDelta(job[p].values, job[p].seen["config"])]

\* The adapter was rewritten twice in the course of the call.
Raced(p) == rewrites["adapter"] >= job[p].since + 2

ReturnReceipt(p) ==
    /\ At(p, "lora", "receipt")
    /\ IF job[p].claim = None
       THEN /\ records' = records \union {Merged(ReceiptOf(p), Entry("raced", Raced(p)))}
            /\ UNCHANGED admitted
       ELSE /\ admitted' = IF job[p].claim = ReceiptOf(p)
                           THEN admitted \union {[receipt |-> job[p].claim, raced |-> Raced(p)]}
                           ELSE admitted
            /\ UNCHANGED records
    /\ Refuse(p)
    /\ UNCHANGED store

Axes == {r \in records : r.kind = "axis"}
WithoutGhost(r) == [x \in DOMAIN r \ {"raced"} |-> r[x]]

\* authenticate_lora_adapter_axis_receipt replays the import and compares.
AuthenticateAxis(p) ==
    /\ \E r \in Axes :
           /\ r.delta \in store
           /\ Begin(p, "lora", "config", rewrites["adapter"], WithoutGhost(r))
    /\ UNCHANGED <<store, records, admitted>>

ImportLora(p) ==
    \/ Begin(p, "lora", "config", rewrites["adapter"], None)
           /\ UNCHANGED <<store, records, admitted>>
    \/ (ReadConfig(p) \/ InspectInputs(p) \/ OpenFactors(p) \/ ReadFactors(p)
            \/ CheckAdapter(p) \/ CheckInputs(p))
           /\ UNCHANGED <<store, records, admitted>>
    \/ StoreDelta(p) \/ ReturnReceipt(p)

-----------------------------------------------------------------------------
\* A source is rewritten in place, one part at a time.
Rewrite(f, t, v) ==
    /\ MapThenSumSet(LAMBDA g : rewrites[g], Sources) < MaxRewrites
    /\ disk[f][t] # v
    /\ disk' = [disk EXCEPT ![f][t] = v]
    /\ rewrites' = [rewrites EXCEPT ![f] = @ + 1]
    /\ UNCHANGED <<store, records, admitted, job, deaths>>

Die(p) ==
    /\ job[p] # Idle /\ deaths < MaxDeaths
    /\ deaths' = deaths + 1
    /\ Refuse(p)
    /\ UNCHANGED <<disk, rewrites, store, records, admitted>>

ImportInit ==
    /\ disk = [f \in Sources |-> Whole(f, 1)]
    /\ rewrites = [f \in Sources |-> 0]
    /\ store = {} /\ records = {} /\ admitted = {}
    /\ job = [p \in Procs |-> Idle]
    /\ deaths = 0

-----------------------------------------------------------------------------
(* Actuation. *)

\* output_plans: the updated tensor with its delta first, then the untouched.
StreamOrder ==
    LET place == CHOOSE i \in DOMAIN Parts["base"] : Parts["base"][i] = Modified
    IN  <<Modified, "d">> \o RemoveAt(Parts["base"], place)
FileOf(t) == IF t = "d" THEN "delta" ELSE "base"

\* The checkpoint that base and the referenced delta make.
Made(base) == Merged(base, Entry("d", 1))

Rests == UNCHANGED <<store, records, admitted, outputs, confirmed>>

-----------------------------------------------------------------------------
(* profile_receiver_model *)

\* inspect_source_file, then inspect_model_safetensors and read_config.
InspectSources(p) ==
    \/ At(p, "profile", "checkpoint") /\ OpenFile(p, "base", TRUE, "config")
    \/ At(p, "profile", "config") /\ OpenFile(p, "config", TRUE, "inventory")
    \/ At(p, "profile", "inventory") /\ Rehash(p, "base", "metadata")
    \/ /\ At(p, "profile", "metadata")
       /\ ReadTensors(p, "config", job[p].seen["config"], "live")

\* validate_live_sources
ValidateLive(p) ==
    \/ At(p, "profile", "live") /\ Rehash(p, "base", "live_config")
    \/ At(p, "profile", "live_config") /\ Rehash(p, "config", "persist")

PersistProfile(p) ==
    /\ At(p, "profile", "persist")
    /\ records' = records \union
           {[kind |-> "profile", base |-> job[p].seen["base"],
             config |-> job[p].seen["config"], architecture |-> job[p].values]}
    /\ Refuse(p)
    /\ UNCHANGED <<store, admitted, outputs, confirmed>>

Profile(p) ==
    \/ Begin(p, "profile", "checkpoint", 0, None) /\ Rests
    \/ (InspectSources(p) \/ ValidateLive(p)) /\ Rests
    \/ PersistProfile(p)

-----------------------------------------------------------------------------
(* materialize_compiled_checkpoint, up to the actuator *)

Ask(p) ==
    /\ \E q \in Requests :
           Begin(p, "materialize", IF q.planned THEN "plan" ELSE "place", 0, q)
    /\ Rests

\* prepare_compiled_checkpoint: the plan is replayed over the receiver as it is.
PrepareCompiled(p) ==
    /\ At(p, "materialize", "plan")
    /\ OpenFile(p, "base", ReadNext(p, "base") = job[p].claim.base, "objects")
    /\ Rests

\* persist_compiled_object, of the request and of the representation.
PersistObjects(p) ==
    /\ At(p, "materialize", "objects")
    /\ store' = store \union {[planned |-> job[p].claim]}
    /\ job' = [job EXCEPT ![p].at = "place"]
    /\ UNCHANGED <<records, admitted, outputs, confirmed>>

-----------------------------------------------------------------------------
(* materialize_dense_delta_checkpoint *)

Actuating == {"materialize", "authenticate"}

\* canonical_output_path: nothing may be at the path.
CheckOutput(p) ==
    /\ At(p, "materialize", "place")
    /\ IF outputs[job[p].claim.output] = None
       THEN job' = [job EXCEPT ![p].at = "open"] ELSE Refuse(p)
    /\ Rests

\* A request names the base it is for; a replay takes the base that is there.
OpenBase(p) ==
    /\ \E op \in Actuating : At(p, op, "open")
    /\ OpenFile(p, "base",
                job[p].op = "authenticate" \/ ReadNext(p, "base") = job[p].claim.base, "delta")
    /\ Rests

OpenDelta(p) ==
    /\ \E op \in Actuating : At(p, op, "delta")
    /\ OpenFile(p, "delta", Referenced(ReadNext(p, "delta")), "stream")
    /\ Rests

\* Mutant of StreamPart: the file is hashed again after the tensor was written,
\* "A rehash of the current file would incorrectly accept it" (weight_actuator.rs:688).
StreamThenRehash(p) ==
    LET t == StreamOrder[Cardinality(DOMAIN job[p].values) + 1]
    IN  /\ \E op \in Actuating : At(p, op, "stream")
        /\ IF DOMAIN job[p].values = Range(StreamOrder)
           THEN IF disk["base"] = job[p].seen["base"]
                THEN job' = [job EXCEPT ![p].at = "finish"] ELSE Refuse(p)
           ELSE job' = [job EXCEPT ![p].values = Merged(@, Entry(t, disk[FileOf(t)][t]))]
        /\ Rests

\* write_checkpoint_stream, into the staged file or into a digest: one tensor,
\* or the chunk of the delta that is added to it.
StreamPart(p) ==
    LET t == StreamOrder[Cardinality(DOMAIN job[p].values) + 1]
        version == disk[FileOf(t)][t]
    IN  /\ \E op \in Actuating : At(p, op, "stream")
        /\ IF DOMAIN job[p].values = Range(StreamOrder)
           THEN job' = [job EXCEPT ![p].at = "finish"]
           ELSE IF t = "d" \/ version = job[p].seen["base"][t]
           THEN job' = [job EXCEPT ![p].values = Merged(@, Entry(t, version))]
           ELSE Refuse(p)
        /\ Rests

\* VerifiedDvecReader::finish; the staged file is synced, hashed and read back.
FinishStream(p) ==
    /\ \E op \in Actuating : At(p, op, "finish")
    /\ IF Referenced(Restrict(job[p].values, {"d"}))
       THEN job' = [job EXCEPT ![p].at =
                          IF job[p].op = "materialize" THEN "link" ELSE "compare"]
       ELSE Refuse(p)
    /\ Rests

\* install_output_noreplace: a hard link, which fails where something is.
LinkOutput(p) ==
    LET output == job[p].claim.output
    IN  /\ At(p, "materialize", "link")
        /\ IF outputs[output] = None
           THEN /\ outputs' = [outputs EXCEPT ![output] = job[p].values]
                /\ job' = [job EXCEPT ![p].at = "installed"]
           ELSE Refuse(p) /\ UNCHANGED outputs
        /\ UNCHANGED <<store, records, admitted, confirmed>>

\* The receipt of a plan is persisted, and only then authenticated: the one of
\* the actuator alone goes to the caller.
TellReceipt(p) ==
    LET q == job[p].claim
        r == [kind |-> "output", base |-> job[p].seen["base"], output |-> q.output,
              content |-> job[p].values]
    IN  /\ At(p, "materialize", "installed")
        /\ IF outputs[q.output] = job[p].values
           THEN /\ records' = records \union {r}
                /\ job' = [job EXCEPT ![p] = IF ~q.planned THEN Idle
                       ELSE [Idle EXCEPT !.op = "authenticate", !.at = "open", !.claim = r]]
           ELSE Refuse(p) /\ UNCHANGED records
        /\ UNCHANGED <<store, admitted, outputs, confirmed>>

-----------------------------------------------------------------------------
(* authenticate_weight_materialization_receipt *)

Present(p) ==
    /\ \E r \in Claims : Begin(p, "authenticate", "open", 0, r)
    /\ Rests

\* verify_output_semantics of what is at the path, and the receipt as it has to be.
CompareReceipt(p) ==
    LET r == job[p].claim
    IN  /\ At(p, "authenticate", "compare")
        /\ confirmed' = IF /\ outputs[r.output] = job[p].values
                           /\ r.base = job[p].seen["base"] /\ r.content = job[p].values
                        THEN confirmed \union {r} ELSE confirmed
        /\ Refuse(p)
        /\ UNCHANGED <<store, records, admitted, outputs>>

-----------------------------------------------------------------------------
Actuate(p) ==
    \/ Ask(p) \/ PrepareCompiled(p) \/ PersistObjects(p) \/ CheckOutput(p)
    \/ OpenBase(p) \/ OpenDelta(p) \/ StreamPart(p) \/ FinishStream(p)
    \/ LinkOutput(p) \/ TellReceipt(p)
    \/ Present(p) \/ CompareReceipt(p)

ActuationInit ==
    /\ ImportInit
    /\ outputs = [o \in {q.output : q \in Requests} |-> None]
    /\ confirmed = {}

-----------------------------------------------------------------------------
\* What a record says of a file is true of what was made of it, whatever was
\* rewritten meanwhile: the checkpoint is the tensors of the shards as they
\* were digested (the field tensor_payloads_preserved_exactly), the weights are
\* those of the model that is named, and a combination is that of the deltas it
\* refers to (the comment on stream_linear_combination_bytes).
MadeOfWhatIsNamed ==
    /\ \A r \in records :
           /\ r.kind = "normalization" => r.checkpoint = r.shards
           /\ r.kind = "readout" => r.weights = r.model
    /\ \A c \in store : "combined" \in DOMAIN c => Referenced(c.combined)

Exact(r) == r.delta = DenseDelta(r.adapter, r.config)

\* An imported axis is the delta of the adapter it names, unless the adapter was
\* rewritten and restored while it was imported; and who authenticates it later
\* is only misled if that happens again.
AxesAreExact ==
    /\ \A r \in Axes : Exact(r) \/ r.raced
    /\ \A a \in admitted : Exact(a.receipt) \/ a.raced

\* What is installed is exactly what somebody asked for: the base that the
\* request names with the delta that it refers to, in every part, whatever was
\* rewritten while it was read, and whoever died.
OutputsAreExact ==
    \A o \in DOMAIN outputs :
        outputs[o] # None =>
            \E q \in Requests : q.output = o /\ outputs[o] = Made(q.base)

\* A receipt tells what is at its path: the first to link a path keeps it, and
\* nobody is confirmed a receipt that is not true (the comment on
\* write_checkpoint_stream: "Hashing only a caller-named output cannot establish
\* W + dW").
ReceiptsAreTrue ==
    \A r \in {x \in records : x.kind = "output"} \union confirmed :
        outputs[r.output] = r.content /\ r.content = Made(r.base)

\* A profile speaks of one configuration.
ProfilesAgree == \A r \in records : r.kind = "profile" => r.architecture = r.config
=============================================================================
