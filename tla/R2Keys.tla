------------------------------- MODULE R2Keys -------------------------------
(***************************************************************************)
(* From the keys of a request to files in the stash: the expansion of the  *)
(* keys (src/src/types.rs), their dispatch to one object or to all objects *)
(* under a prefix, and the local path of each object (src/src/r2.rs).      *)
(* PoolFiles takes for granted that what is hydrated is what the           *)
(* preparation reads; this module is about that.                           *)
(*                                                                         *)
(* A key is its parts between slashes and the gaps where a slash too many  *)
(* stands: gap 0 in front of the first part, gap i after part i; a key     *)
(* with a gap after its last part ends with a slash.  The bucket is        *)
(* external: object_store sees no gaps, so an object is a path, and the    *)
(* listing of a prefix is the paths below it.                              *)
(***************************************************************************)
EXTENDS Naturals, SequencesExt

CONSTANTS
  Part,        \* what may stand between two slashes
  Dotted,      \* the parts that contain ".."
  R2Prefixes,  \* values R2_PREFIX may have, slashes trimmed
  Buckets,     \* sets of objects a bucket may hold
  Requested    \* the keys field a request may carry

IsKey(key) == key.parts \in Seq(Part) /\ key.gaps \subseteq 0 .. Len(key.parts)

ASSUME KeysAssumption ==
  /\ "bots" \in Part \ Dotted
  /\ R2Prefixes \subseteq Seq(Part)
  /\ \A bucket \in Buckets : bucket \subseteq Seq(Part)
  /\ \A request \in Requested :
       /\ IsKey(request.credential_profile)
       /\ \A key \in request.script_config \cup request.controllers
                       \cup request.scripts_runtime \cup request.controllers_runtime : IsKey(key)

VARIABLES
  prefix, bucket, request,
  done,    \* the keys hydrated so far
  written, \* the local paths written so far
  failed   \* hydrate_keys ended with an error

vars == <<prefix, bucket, request, done, written, failed>>

-----------------------------------------------------------------------------
(***************************************************************************)
(* Keys.                                                                   *)
(***************************************************************************)

EndsWithSlash(key) == Len(key.parts) \in key.gaps

\* as_prefix_key.
AsPrefixKey(key) == [parts |-> key.parts, gaps |-> key.gaps \cup {Len(key.parts)}]

Folders(keys) == {keys.credential_profile} \cup keys.scripts_runtime \cup keys.controllers_runtime
Files(keys) == keys.script_config \cup keys.controllers

\* Mutant of Flatten: the runtime folders are left to be optional.
FlattenWithoutRuntime(keys) == {AsPrefixKey(keys.credential_profile)} \cup Files(keys)

\* OrchestrationR2Keys::flatten, an Option being a set of one or none; nothing
\* depends on the order of the keys.
Flatten(keys) == {AsPrefixKey(key) : key \in Folders(keys)} \cup Files(keys)

Under(key) == IsStrictPrefix(prefix, key.parts) /\ \A gap \in key.gaps : gap >= Len(prefix)
Rest(key) == SubSeq(key.parts, Len(prefix) + 1, Len(key.parts))
Absolute(key) == Len(prefix) \in key.gaps

\* Mutant of Accepted: whatever is under the prefix.
AcceptedUnder(key) == Under(key)

\* relative_key: under the prefix, without "..", and not absolute.
Accepted(key) == Under(key) /\ Range(Rest(key)) \cap Dotted = {} /\ ~Absolute(key)

\* local_path_for_key; a path does not see gaps, and joining an absolute one
\* replaces what was there.
LocalPath(key) == IF Absolute(key) THEN Rest(key) ELSE <<"bots">> \o Rest(key)

\* An object by the name the listing gives it.
Listed(object) == [parts |-> object, gaps |-> {}]

Below(path) == {object \in bucket : IsStrictPrefix(path, object)}

\* The keys download_key is called with: the key itself, or the objects below.
Downloads(key) ==
  IF EndsWithSlash(key) THEN {Listed(object) : object \in Below(key.parts)} ELSE {key}

-----------------------------------------------------------------------------

Init ==
  /\ prefix \in R2Prefixes /\ bucket \in Buckets /\ request \in Requested
  /\ done = {} /\ written = {} /\ failed = FALSE

Fetched(one) == one.parts \in bucket /\ Accepted(one)

\* hydrate_keys, one key: each object of it is read and written.  One that is
\* refused or missing ends the whole, and so may any call of the store or of the
\* file system; some objects have been written by then.
Hydrate(key) ==
  /\ ~failed /\ key \in Flatten(request) \ done
  /\ \/ /\ \A one \in Downloads(key) : Fetched(one)
        /\ done' = done \cup {key}
        /\ written' = written \cup {LocalPath(one) : one \in Downloads(key)}
        /\ UNCHANGED failed
     \/ /\ failed' = TRUE
        /\ \E some \in SUBSET {one \in Downloads(key) : Fetched(one)} :
             written' = written \cup {LocalPath(one) : one \in some}
        /\ UNCHANGED done
  /\ UNCHANGED <<prefix, bucket, request>>

Next == \E key \in Flatten(request) : Hydrate(key)

Spec == Init /\ [][Next]_vars

-----------------------------------------------------------------------------
(***************************************************************************)
(* Properties.                                                             *)
(***************************************************************************)

Hydrated == done = Flatten(request)

\* The table of src/docs/bot_deployment.md:83: a key and the place of the file in
\* the stash are the same path, and a folder brings its files.
Expected ==
  (UNION {Below(key.parts) : key \in Folders(request)})
    \cup (UNION {IF EndsWithSlash(key) THEN Below(key.parts) ELSE {key.parts} :
                   key \in Files(request)})

\* Under the documented prefix a hydration writes no file the request did not ask
\* for, wherever it ends, and one that succeeds has brought every file of the
\* request to where the preparation reads it.
HydratesAsDocumented ==
  prefix = <<"bots">> => written \subseteq Expected /\ (Hydrated => written = Expected)

\* Whatever keys a request carries and wherever the prefix points, files are
\* written below the bots tree only.
StaysInBots ==
  \A path \in written : Head(path) = "bots" /\ Range(path) \cap Dotted = {}
=============================================================================
