----------------------------- MODULE KeysProofs -----------------------------
(***************************************************************************)
(* Theorems about the hydration of keys, for any bucket, any R2_PREFIX and *)
(* any keys a request may spell: where files are written, that none is     *)
(* written unasked and that a hydration that succeeds brought them all.    *)
(***************************************************************************)
EXTENDS R2Keys, TLAPS

\* The root and what follows it make up the path.
LEMMA RootAndRest ==
  ASSUME NEW S, NEW root \in S, NEW path \in Seq(S), IsStrictPrefix(<<root>>, path)
  PROVE  <<root>> \o SubSeq(path, 2, Len(path)) = path
<1>1. Len(path) >= 1 /\ path[1] = root
  <2>1. Len(<<root>>) = 1 /\ Len(path) >= 1 /\ SubSeq(<<root>>, 1, 1) = SubSeq(path, 1, 1)
    BY DEF IsStrictPrefix, IsPrefix
  <2>2. SubSeq(<<root>>, 1, 1)[1] = root  OBVIOUS
  <2>3. SubSeq(path, 1, 1)[1] = path[1]  BY <2>1
  <2> QED  BY <2>1, <2>2, <2>3
<1> DEFINE rest == SubSeq(path, 2, Len(path))
<1>2. rest \in Seq(S) /\ Len(rest) = Len(path) - 1
      /\ \A i \in 1 .. Len(path) - 1 : rest[i] = path[i + 1]
  BY <1>1
<1> HIDE DEF rest
<1> DEFINE whole == <<root>> \o rest
<1>3. whole \in Seq(S) /\ Len(whole) = Len(path) /\ whole[1] = root
      /\ \A i \in 2 .. Len(path) : whole[i] = rest[i - 1]
  BY <1>1, <1>2
<1> HIDE DEF whole
<1>4. \A i \in 1 .. Len(path) : whole[i] = path[i]
  <2> SUFFICES ASSUME NEW i \in 1 .. Len(path) PROVE whole[i] = path[i]
    OBVIOUS
  <2>1. CASE i = 1  BY <1>1, <1>3, <2>1
  <2>2. CASE i # 1
    <3>1. i \in 2 .. Len(path) /\ i - 1 \in 1 .. Len(path) - 1  BY <2>2
    <3> QED  BY <1>2, <1>3, <3>1
  <2> QED  BY <2>1, <2>2
<1>5. whole = path  BY <1>3, <1>4
<1> QED  BY <1>5 DEF whole, rest

\* What a request asks for is well formed, and a folder is asked for as one.
LEMMA KeysOfRequest ==
  ASSUME NEW keys \in Requested
  PROVE  /\ \A key \in Folders(keys) \cup Files(keys) \cup Flatten(keys) : IsKey(key)
         /\ \A key \in Folders(keys) :
              AsPrefixKey(key).parts = key.parts /\ EndsWithSlash(AsPrefixKey(key))
<1>1. \A key \in Folders(keys) \cup Files(keys) : IsKey(key)
  BY KeysAssumption DEF Folders, Files
<1>2. ASSUME NEW key, IsKey(key)
      PROVE  IsKey(AsPrefixKey(key)) /\ AsPrefixKey(key).parts = key.parts
             /\ EndsWithSlash(AsPrefixKey(key))
  BY <1>2 DEF IsKey, AsPrefixKey, EndsWithSlash
<1> QED  BY <1>1, <1>2 DEF Flatten

\* The keys that are downloaded, from which the listed objects differ in nothing.
LEMMA DownloadsAreKeys ==
  ASSUME bucket \subseteq Seq(Part), NEW key, IsKey(key), NEW one \in Downloads(key)
  PROVE  IsKey(one)
BY DEF Downloads, Below, Listed, IsKey

\* A file that is not refused lands below the bots tree.
LEMMA LandsBelowBots ==
  ASSUME prefix \in Seq(Part), NEW one, IsKey(one), Accepted(one)
  PROVE  /\ Head(LocalPath(one)) = "bots"
         /\ Range(LocalPath(one)) \cap Dotted = {}
         /\ prefix = <<"bots">> => LocalPath(one) = one.parts
<1> USE KeysAssumption
<1>1. Rest(one) \in Seq(Part) /\ LocalPath(one) = <<"bots">> \o Rest(one)
  <2>1. Len(prefix) + 1 \in 1 .. Len(one.parts) + 1
    BY DEF Accepted, Under, IsStrictPrefix, IsPrefix, IsKey
  <2> QED  BY <2>1 DEF Accepted, Rest, LocalPath, IsKey
<1>2. \A i \in DOMAIN LocalPath(one) :
        LocalPath(one)[i] = "bots" \/ LocalPath(one)[i] \in Range(Rest(one))
  BY <1>1 DEF Range
<1>3. Head(LocalPath(one)) = "bots"  BY <1>1
<1>4. Range(LocalPath(one)) \cap Dotted = {}
  BY <1>2 DEF Accepted, Range
<1>5. ASSUME prefix = <<"bots">> PROVE LocalPath(one) = one.parts
  <2>1. Len(prefix) + 1 = 2 /\ one.parts \in Seq(Part) /\ IsStrictPrefix(<<"bots">>, one.parts)
    BY <1>5 DEF Accepted, Under, IsKey
  <2> QED  BY <1>1, <2>1, RootAndRest DEF Rest
<1> QED  BY <1>3, <1>4, <1>5

-----------------------------------------------------------------------------

\* The local paths of what a key downloads.
Written(key) == {LocalPath(one) : one \in Downloads(key)}

\* What was written comes from accepted keys, and as long as nothing failed it is
\* all of what the hydrated keys stand for.  A failure leaves a key undone.
KeysInv ==
  /\ prefix \in R2Prefixes /\ bucket \in Buckets /\ request \in Requested
  /\ failed \in BOOLEAN /\ done \subseteq Flatten(request)
  /\ \A path \in written :
       \E key \in Flatten(request) : \E one \in Downloads(key) : Fetched(one) /\ path = LocalPath(one)
  /\ \A key \in done : \A one \in Downloads(key) : Fetched(one)
  /\ ~failed => \A path : path \in written <=> \E key \in done : path \in Written(key)
  /\ failed => done # Flatten(request)

LEMMA KeysSteps == KeysInv /\ [Next]_vars => KeysInv'
<1> SUFFICES ASSUME KeysInv, [Next]_vars PROVE KeysInv'
  OBVIOUS
<1>1. CASE UNCHANGED vars
  <2>1. /\ UNCHANGED <<prefix, bucket, request, done, written, failed>>
        /\ \A one : Fetched(one)' <=> Fetched(one)
        /\ \A one : LocalPath(one)' = LocalPath(one)
        /\ \A k : Downloads(k)' = Downloads(k) /\ Written(k)' = Written(k)
    BY <1>1 DEF vars, Fetched, Accepted, Under, Rest, Absolute, LocalPath, Downloads, Below, Written
  <2> QED  BY <2>1 DEF KeysInv
<1>2. ASSUME NEW key \in Flatten(request), Hydrate(key) PROVE KeysInv'
  <2>1. /\ UNCHANGED <<prefix, bucket, request>> /\ ~failed /\ key \notin done
        /\ \A one : Fetched(one)' <=> Fetched(one)
        /\ \A one : LocalPath(one)' = LocalPath(one)
        /\ \A k : Downloads(k)' = Downloads(k) /\ Written(k)' = Written(k)
    BY <1>2 DEF Hydrate, Fetched, Accepted, Under, Rest, Absolute, LocalPath, Downloads, Below, Written
  <2>2. CASE failed' = failed
    <3>1. /\ done' = done \cup {key} /\ \A one \in Downloads(key) : Fetched(one)
          /\ written' = written \cup Written(key)
      BY <1>2, <2>1, <2>2 DEF Hydrate, Written
    <3>2. \A path : path \in written' <=> \E k \in done' : path \in Written(k)
      BY <2>1, <3>1 DEF KeysInv
    <3>3. \A path \in written' :
            \E k \in Flatten(request) : \E one \in Downloads(k) : Fetched(one) /\ path = LocalPath(one)
      <4>1. \A path \in Written(key) :
              \E one \in Downloads(key) : Fetched(one) /\ path = LocalPath(one)
        BY <3>1 DEF Written
      <4> QED  BY <3>1, <4>1 DEF KeysInv
    <3> QED  BY <2>1, <2>2, <3>1, <3>2, <3>3 DEF KeysInv
  <2>3. CASE failed' # failed
    <3>1. /\ failed' = TRUE /\ done' = done /\ done # Flatten(request)
          /\ \E some \in SUBSET {one \in Downloads(key) : Fetched(one)} :
               written' = written \cup {LocalPath(one) : one \in some}
      BY <1>2, <2>3 DEF Hydrate
    <3>2. \A path \in written' :
            \E k \in Flatten(request) : \E one \in Downloads(k) : Fetched(one) /\ path = LocalPath(one)
      BY <3>1 DEF KeysInv
    <3> QED  BY <2>1, <3>1, <3>2 DEF KeysInv
  <2> QED  BY <2>2, <2>3
<1> QED  BY <1>1, <1>2 DEF Next

LEMMA KeysHold == Spec => []KeysInv
<1>1. Init => KeysInv  BY DEF Init, KeysInv
<1> QED  BY <1>1, KeysSteps, PTL DEF Spec

\* No request, no bucket and no prefix makes the sidecar write a file outside the
\* bots tree.
THEOREM FilesStayInBots == Spec => []StaysInBots
<1>1. KeysInv => StaysInBots
  <2> SUFFICES ASSUME KeysInv, NEW path \in written
               PROVE  Head(path) = "bots" /\ Range(path) \cap Dotted = {}
    BY DEF StaysInBots
  <2>1. PICK key \in Flatten(request) : \E one \in Downloads(key) : Fetched(one) /\ path = LocalPath(one)
    BY DEF KeysInv
  <2>2. PICK one \in Downloads(key) : Fetched(one) /\ path = LocalPath(one)  BY <2>1
  <2>3. prefix \in Seq(Part) /\ bucket \subseteq Seq(Part) /\ IsKey(key)
    BY KeysAssumption, KeysOfRequest DEF KeysInv
  <2>4. IsKey(one) /\ Accepted(one)  BY <2>2, <2>3, DownloadsAreKeys DEF Fetched
  <2> QED  BY <2>2, <2>3, <2>4, LandsBelowBots
<1> QED  BY <1>1, KeysHold, PTL

\* What the keys of a request download is what the table of the documentation
\* lists, whether a folder is spelled with its slash or without.
LEMMA DownloadsAreExpected ==
  ASSUME request \in Requested, NEW path
  PROVE  path \in Expected <=>
           \E key \in Flatten(request) : \E one \in Downloads(key) : path = one.parts
<1>1. \A object : Listed(object).parts = object  BY DEF Listed
<1>2. ASSUME NEW key \in Folders(request)
      PROVE  path \in Below(key.parts) <=> \E one \in Downloads(AsPrefixKey(key)) : path = one.parts
  <2>1. Downloads(AsPrefixKey(key)) = {Listed(object) : object \in Below(key.parts)}
    BY KeysOfRequest DEF Downloads
  <2> QED  BY <1>1, <2>1
<1> DEFINE Asked(key) == IF EndsWithSlash(key) THEN Below(key.parts) ELSE {key.parts}
<1>3. ASSUME NEW key \in Files(request)
      PROVE  path \in Asked(key) <=> \E one \in Downloads(key) : path = one.parts
  BY <1>1 DEF Downloads
<1>4. path \in Expected <=>
        \/ \E key \in Folders(request) : path \in Below(key.parts)
        \/ \E key \in Files(request) : path \in Asked(key)
  BY DEF Expected
<1>5. (\E key \in Flatten(request) : \E one \in Downloads(key) : path = one.parts) <=>
        \/ \E key \in Folders(request) : \E one \in Downloads(AsPrefixKey(key)) : path = one.parts
        \/ \E key \in Files(request) : \E one \in Downloads(key) : path = one.parts
  BY DEF Flatten
<1> HIDE DEF Asked
<1> QED  BY <1>2, <1>3, <1>4, <1>5

\* Under the documented prefix a hydration writes no file the request did not ask
\* for, whatever fails on the way, and one that succeeds has brought every file of
\* the request to its documented place.
THEOREM HydrationIsAsDocumented == Spec => []HydratesAsDocumented
<1>1. KeysInv => HydratesAsDocumented
  <2> SUFFICES ASSUME KeysInv, prefix = <<"bots">>
               PROVE  written \subseteq Expected /\ (Hydrated => Expected \subseteq written)
    BY DEF HydratesAsDocumented
  <2>1. prefix \in Seq(Part) /\ bucket \subseteq Seq(Part) /\ request \in Requested
    BY KeysAssumption DEF KeysInv
  <2>2. ASSUME NEW key \in Flatten(request), NEW one \in Downloads(key), Fetched(one)
        PROVE  LocalPath(one) = one.parts
    <3>1. IsKey(key)  BY <2>1, KeysOfRequest
    <3>2. IsKey(one) /\ Accepted(one)  BY <2>1, <2>2, <3>1, DownloadsAreKeys DEF Fetched
    <3> QED  BY <2>1, <3>2, LandsBelowBots
  <2>3. ASSUME NEW path \in written PROVE path \in Expected
    <3>1. PICK key \in Flatten(request) : \E one \in Downloads(key) : Fetched(one) /\ path = LocalPath(one)
      BY <2>3 DEF KeysInv
    <3>2. PICK one \in Downloads(key) : Fetched(one) /\ path = LocalPath(one)  BY <3>1
    <3>3. path = one.parts  BY <2>2, <3>2
    <3> QED  BY <2>1, <3>3, DownloadsAreExpected
  <2>4. ASSUME Hydrated, NEW path \in Expected PROVE path \in written
    <3>1. ~failed /\ done = Flatten(request)  BY <2>4 DEF KeysInv, Hydrated
    <3>2. PICK key \in Flatten(request) : \E one \in Downloads(key) : path = one.parts
      BY <2>1, <2>4, DownloadsAreExpected
    <3>3. PICK one \in Downloads(key) : path = one.parts  BY <3>2
    <3>4. Fetched(one)  BY <3>1 DEF KeysInv
    <3>5. path \in Written(key)  BY <2>2, <3>3, <3>4 DEF Written
    <3> QED  BY <3>1, <3>5 DEF KeysInv
  <2> QED  BY <2>3, <2>4
<1> QED  BY <1>1, KeysHold, PTL
=============================================================================
