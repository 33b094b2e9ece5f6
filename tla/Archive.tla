------------------------------ MODULE Archive ------------------------------
(***************************************************************************)
(* The persistence half of artifacts/_codec.py. Several processes dump     *)
(* artifacts to one path and load what the path names; a dump may fail or  *)
(* be killed between any two of its steps. An older release wrote the same *)
(* format with fewer fields, a newer one another version of it, and a disk *)
(* may return other bytes than it was given. What goes into a file is an   *)
(* envelope; the inode a process opened stays its own, whatever the path   *)
(* comes to name.                                                          *)
(***************************************************************************)
EXTENDS Sequences, FiniteSets, Integers

-----------------------------------------------------------------------------
(***************************************************************************)
(* artifacts/_codec.py: the one encoding behind every fingerprint and every *)
(* stored artifact. A value, and the payload it is encoded to, is a tag, a  *)
(* text and the values inside it under their keys; the payload of an object *)
(* lists what is inside in the order of the keys. SHA-256 and base64 lose   *)
(* nothing here: a digest is the payload it was taken of.                   *)
(***************************************************************************)

CONSTANTS
  MaxDepth,   \* _MAX_DEPTH
  Deepest     \* how deep the values of a program are nested

ASSUME MaxDepthAssumption == MaxDepth \in Nat /\ Deepest \in Nat

Value(tag, text, items) == [tag |-> tag, text |-> text, items |-> items]
Atom(tag, text) == Value(tag, text, <<>>)
Item(key, value) == [key |-> key, value |-> value]

\* ArtifactCodecError.
Refused == Atom("refused", "")

Keys(items) == {items[i].key : i \in DOMAIN items}
At(items, key) == items[CHOOSE i \in DOMAIN items : items[i].key = key].value

\* Names in the order sorted() gives them; elements of a tuple have none.
Names == {"initialization", "meta", "mh_correction", "names", "stopping"}
InOrder(names) ==
  LET Only(name) == IF name \in names THEN <<name>> ELSE <<>>
  IN Only("initialization") \o Only("meta") \o Only("mh_correction") \o Only("names") \o Only("stopping")

Listing(items, names) == [i \in DOMAIN InOrder(names) |-> Item(InOrder(names)[i], At(items, InOrder(names)[i]))]
Sorted(items) == Listing(items, Keys(items))

\* What has at most n levels inside it. Inside of what stands at level 0 is nothing.
Levels == 0 .. Deepest
Inside(f, n) == IF n = 0 THEN {} ELSE f[n - 1]
Trees[n \in Levels] ==
  [tag : STRING, text : STRING, items : Seq([key : STRING, value : Inside(Trees, n)])]

(***************************************************************************)
(* The whitelist. A class has an identity, the name payloads call it by, a  *)
(* shape, its fields as declared, and those of them that have a default.    *)
(***************************************************************************)
Class(id, name, shape, fields, defaults) ==
  [id |-> id, name |-> name, shape |-> shape, fields |-> fields, defaults |-> defaults]

PosteriorTask == Class("task", "PosteriorTask", "frozen", <<"meta", "initialization", "stopping">>,
                       {"initialization", "stopping"})
ProposalBlockPolicy == Class("policy", "ProposalBlockPolicy", "frozen",
                             <<"names", "mh_correction">>, {"mh_correction"})
TerminationReason == Class("reason", "TerminationReason", "str_enum", <<>>, {})
RunRecord == Class("run", "RunRecord", "frozen", <<"names", "initialization">>, {"initialization"})

\* Classes of a caller's: two of one name, and one that cannot be rebuilt.
Settings == Class("settings", "Settings", "frozen", <<"names">>, {})
Namesake == Class("namesake", "Settings", "frozen", <<"names">>, {})
Loose == Class("loose", "Loose", "non_init", <<"names">>, {})

OfThePackage == {PosteriorTask, ProposalBlockPolicy, TerminationReason, RunRecord}
Classes == OfThePackage \cup {Settings, Namesake, Loose}
Named(id) == CHOOSE cls \in Classes : cls.id = id

\* register_artifact_type: a class it refuses leaves the registry alone.
Register(registry, cls) ==
  IF cls.shape \in {"frozen", "str_enum"} /\ \A known \in registry : known.name # cls.name
    THEN registry \cup {cls} ELSE registry

Registered(registry, v) == Named(v.text) \in registry

\* _lookup: the class a payload names, if it is one of that kind.
Lookup(registry, name, enum) ==
  {cls \in registry : cls.name = name /\ (enum <=> cls.shape = "str_enum")}

(***************************************************************************)
(* Encoding.                                                               *)
(***************************************************************************)
\* The instant of a datetime, in UTC; a naive one is no instant.
Instants == [eleven_plus_one |-> "ten_utc", ten_utc |-> "ten_utc"]

\* _float_token: hexadecimal, exact; whatever its bits, a NaN is a NaN.
NaNs == {"nan", "negative_nan"}
FloatToken(v) == Atom("float", IF v.text \in NaNs THEN "nan" ELSE v.text)

\* _float_from_token: no spelling but the one that was written.
FloatFromToken(p) == IF p.text = "decimal" THEN Refused ELSE p

\* _encode_array: the bytes in C order, whatever the layout in memory.
EncodeArray(v) ==
  IF v.tag \in {"ndarray", "fortran_ndarray"} THEN Atom("ndarray", v.text) ELSE Refused

ArrayTags == {"ndarray", "fortran_ndarray", "masked_array", "object_array"}
Plain == {"none", "bool", "int", "str", "bytes"}

Gather(tag, text, items) ==
  IF \E i \in DOMAIN items : items[i].value = Refused THEN Refused ELSE Value(tag, text, items)

\* (bug) a mapping is written in the order it was filled
MappingOrder_Insertion(items) == items
MappingOrder(items) == Sorted(items)

EncodeAll(items, encode) == [i \in DOMAIN items |-> [items[i] EXCEPT !.value = encode[@]]]

\* _encode, on the exact type of the value: a NumPy scalar, a set, a class that
\* was never registered are refused rather than approximated.
EncodeTag(v, registry, encode) ==
  CASE v.tag \in Plain -> v
    [] v.tag = "float" -> FloatToken(v)
    [] v.tag = "tuple" -> Gather("tuple", "", EncodeAll(v.items, encode))
    [] v.tag = "dict" ->
         Gather("mapping", "", EncodeAll(MappingOrder(v.items), encode))
    [] v.tag = "datetime" ->
         IF v.text \in DOMAIN Instants THEN Atom("datetime", Instants[v.text]) ELSE Refused
    [] v.tag \in ArrayTags -> EncodeArray(v)
    [] v.tag = "enum" ->
         IF Registered(registry, v) THEN Value("enum", Named(v.text).name, v.items) ELSE Refused
    [] v.tag = "dataclass" ->
         IF Registered(registry, v)
           THEN Gather("dataclass", Named(v.text).name, EncodeAll(Sorted(v.items), encode))
           ELSE Refused
    [] OTHER -> Refused

\* Level n is at depth Deepest - n.
Encode[n \in Levels] ==
  [registry \in SUBSET Classes |-> [v \in Trees[n] |->
     IF Deepest - n > MaxDepth THEN Refused ELSE EncodeTag(v, registry, Inside(Encode, n)[registry])]]

\* canonical_payload, which canonical_dumps writes down and fingerprint hashes.
CanonicalPayload(v, registry) == Encode[Deepest][registry][v]

(***************************************************************************)
(* Decoding.                                                               *)
(***************************************************************************)
\* What a field that an older release did not write stands for: a task without
\* an initialization started its chains the way chains started then.
Absent(cls, key) ==
  CASE cls.name = "ProposalBlockPolicy" -> Atom("bool", "True")
    [] cls.name = "PosteriorTask" /\ key = "initialization" -> Atom("none", "")
    [] OTHER -> Atom("str", "default")

\* The omissions that are read as an older release's; all others are refused.
MayOmit(cls, missing) ==
  \/ cls.name = "ProposalBlockPolicy" /\ missing = {"mh_correction"}
  \/ cls.name = "PosteriorTask" /\ missing \subseteq cls.defaults

\* Built again by its own constructor, which refuses fields out of its range.
Rebuild(cls, items) ==
  LET expected == {cls.fields[i] : i \in DOMAIN cls.fields}
      missing == expected \ Keys(items)
  IN IF \/ ~Keys(items) \subseteq expected
        \/ missing # {} /\ ~MayOmit(cls, missing)
        \/ \E key \in Keys(items) : At(items, key).text = "out_of_range"
       THEN Refused
       ELSE Value("dataclass", cls.id,
              [i \in DOMAIN cls.fields |->
                 Item(cls.fields[i], IF cls.fields[i] \in missing THEN Absent(cls, cls.fields[i])
                                     ELSE At(items, cls.fields[i]))])

DecodeAll(items, decode) == [i \in DOMAIN items |-> [items[i] EXCEPT !.value = decode[@]]]

\* _decode: only the tags it writes; a class is looked up, never imported.
DecodeTag(p, registry, decode) ==
  CASE p.tag \in Plain \cup {"datetime", "ndarray"} -> p
    [] p.tag = "float" -> FloatFromToken(p)
    [] p.tag = "tuple" -> Gather("tuple", "", DecodeAll(p.items, decode))
    [] p.tag = "mapping" -> Gather("dict", "", DecodeAll(p.items, decode))
    [] p.tag = "enum" ->
         IF Lookup(registry, p.text, TRUE) = {} THEN Refused
         ELSE Value("enum", (CHOOSE c \in Lookup(registry, p.text, TRUE) : TRUE).id, p.items)
    [] p.tag = "dataclass" ->
         LET items == DecodeAll(p.items, decode)
             found == Lookup(registry, p.text, FALSE)
         IN IF found = {} \/ \E i \in DOMAIN items : items[i].value = Refused
              THEN Refused ELSE Rebuild(CHOOSE cls \in found : TRUE, items)
    [] OTHER -> Refused

Decode[n \in Levels] ==
  [registry \in SUBSET Classes |-> [p \in Trees[n] |->
     IF Deepest - n > MaxDepth THEN Refused ELSE DecodeTag(p, registry, Inside(Decode, n)[registry])]]

\* canonical_loads; a caller may expect instances of one class.
CanonicalLoads(p, registry, expected) ==
  LET v == Decode[Deepest][registry][p]
  IN IF expected = "any" \/ (v.tag = "dataclass" /\ v.text = expected) THEN v ELSE Refused

(***************************************************************************)
(* What a value is, said without an encoding: a mapping has no order and a  *)
(* datetime no offset.                                                     *)
(***************************************************************************)
MeantTag(v) == IF v.tag = "fortran_ndarray" THEN "ndarray" ELSE v.tag
MeantText(v) ==
  CASE v.tag = "datetime" /\ v.text \in DOMAIN Instants -> Instants[v.text]
    [] v.tag = "float" /\ v.text \in NaNs -> "nan"
    [] OTHER -> v.text
Parts(v, means) ==
  {<<IF v.tag = "tuple" THEN i ELSE 0, v.items[i].key, means[v.items[i].value]>> : i \in DOMAIN v.items}

Means[n \in Levels] ==
  [v \in Trees[n] |-> [tag |-> MeantTag(v), text |-> MeantText(v), parts |-> Parts(v, Inside(Means, n))]]

Meaning(v) == Means[Deepest][v]

\* What a program holds: only what has parts is made of parts, a mapping has a
\* key once, and a class was built by its constructor, of its own fields and
\* within their range.
IsMade(v, values) ==
  /\ \A i \in DOMAIN v.items : v.items[i].value \in values
  /\ v.text \notin {"decimal", "out_of_range"}
  /\ CASE v.tag \in {"tuple", "dict"} ->
            /\ v.text = ""
            /\ v.tag = "dict" =>
                 Keys(v.items) \subseteq Names /\ \A i, j \in DOMAIN v.items : v.items[i].key = v.items[j].key => i = j
       [] v.tag = "enum" -> \E cls \in Classes :
            /\ cls.shape = "str_enum" /\ cls.id = v.text
            /\ Len(v.items) = 1 /\ v.items[1] = Item("value", Atom("str", v.items[1].value.text))
       [] v.tag = "dataclass" -> \E cls \in Classes :
            /\ cls.shape # "str_enum" /\ cls.id = v.text
            /\ [i \in DOMAIN v.items |-> v.items[i].key] = cls.fields
       [] OTHER -> v.items = <<>>

Values[n \in Levels] == {v \in Trees[n] : IsMade(v, Inside(Values, n))}

\* The provers take no literal for a string by themselves.
ASSUME LiteralsAreStrings ==
  /\ Plain \cup {"float", "tuple", "dict", "mapping", "datetime", "ndarray", "enum", "dataclass"} \subseteq STRING
  /\ Names \cup {"", "nan", "ten_utc", "True", "default"} \subseteq STRING
  /\ \A cls \in Classes : cls.id \in STRING /\ cls.name \in STRING

-----------------------------------------------------------------------------

CONSTANTS
  Processes,   \* the writers and readers
  Artifacts,   \* the values that are dumped
  Samples,     \* values whose fingerprints are compared
  MaxFiles,    \* bound: files ever created
  MaxDamage    \* bound: times a stored file is damaged

ASSUME ArchiveAssumption ==
  /\ MaxFiles \in Nat /\ MaxDamage \in Nat
  /\ Samples \subseteq Values[Deepest]
  /\ Artifacts \subseteq {v \in Values[Deepest] : v.tag = "dataclass"}

VARIABLES
  registry,    \* the classes registered so far
  files,       \* every file created: its contents
  intents,     \* (history) what each file was written to say
  named,       \* the file the path names, 0 for none
  damaged,     \* (history) the files whose bytes were altered
  process,     \* what each process is doing
  loaded       \* (history) the last load: its file, what was expected, its value

archive == <<registry, files, intents, named, damaged, process, loaded>>

\* text: what _envelope_bytes made before any file was touched.
Idle == [at |-> "idle", file |-> 0, text |-> Refused]
NothingLoaded == [file |-> 0, expected |-> "any", value |-> Refused]

\* ArtifactFile, as _envelope_bytes builds it: a digest is what it is taken of.
Envelope(payload) ==
  [format |-> "bayesmith-artifact", version |-> 1, digest |-> payload, payload |-> payload]

\* What is not an envelope: nothing written yet, or a part of one.
Scrap == [Envelope(Refused) EXCEPT !.format = "none"]

\* An intent that this package cannot read and must not guess.
Foreign == Atom("foreign", "")

ArchiveInit ==
  /\ registry = OfThePackage /\ files = <<>> /\ intents = <<>> /\ named = 0 /\ damaged = {}
  /\ process = [p \in Processes |-> Idle]
  /\ loaded = NothingLoaded

\* A caller's module is imported: its decorator offers a class to the registry.
Import(cls) ==
  /\ registry' = Register(registry, cls) /\ registry' # registry
  /\ UNCHANGED <<files, intents, named, damaged, process, loaded>>

\* dump_artifact up to mkstemp: encoded before any file is touched, so what has
\* no encoding raises here and leaves no file.
BeginDump(p, v) ==
  /\ process[p] = Idle /\ Len(files) < MaxFiles
  /\ CanonicalPayload(v, registry) # Refused
  /\ files' = Append(files, Scrap)
  /\ intents' = Append(intents, v)
  /\ process' = [process EXCEPT ![p] =
       [at |-> "created", file |-> Len(files) + 1, text |-> CanonicalPayload(v, registry)]]
  /\ UNCHANGED <<registry, named, damaged, loaded>>

\* (bug) the target itself is opened and written
Created_InPlace(file) == named' = file

\* The temporary file is not what the path names until it is whole.
Created(file) == UNCHANGED named

\* handle.write: the first bytes reach the file.
StartWriting(p) ==
  /\ process[p].at = "created"
  /\ process' = [process EXCEPT ![p].at = "writing"]
  /\ Created(process[p].file)
  /\ UNCHANGED <<registry, files, intents, damaged, loaded>>

\* The handle is closed: all of it has.
FinishWriting(p) ==
  /\ process[p].at = "writing"
  /\ files' = [files EXCEPT ![process[p].file] = Envelope(process[p].text)]
  /\ process' = [process EXCEPT ![p].at = "written"]
  /\ UNCHANGED <<registry, intents, named, damaged, loaded>>

\* os.replace.
Replace(p) ==
  /\ process[p].at = "written"
  /\ named' = process[p].file
  /\ process' = [process EXCEPT ![p] = Idle]
  /\ UNCHANGED <<registry, files, intents, damaged, loaded>>

\* Anything raised before the replacement unlinks the temporary file; a process
\* that is killed leaves it where nothing looks for it.
AbandonDump(p) ==
  /\ process[p].at \in {"created", "writing", "written"}
  /\ process' = [process EXCEPT ![p] = Idle]
  /\ UNCHANGED <<registry, files, intents, named, damaged, loaded>>

\* Another release of the package stored something at the path, by the same
\* steps: an older one its value without the fields it did not have, a newer
\* one something of the next version.
OtherRelease(envelope, intent) ==
  /\ Len(files) < MaxFiles
  /\ files' = Append(files, envelope)
  /\ intents' = Append(intents, intent)
  /\ named' = Len(files) + 1
  /\ UNCHANGED <<registry, damaged, process, loaded>>

\* The payload of a value, by a release that lacked some of its fields, and
\* what that release meant by leaving them out.
WithoutFields(payload, lacking) ==
  [payload EXCEPT !.items = Listing(@, Keys(@) \ lacking)]
ThenMeant(key) ==
  CASE key = "mh_correction" -> Atom("bool", "True")
    [] key = "initialization" -> Atom("none", "")
    [] OTHER -> Atom("str", "default")
OlderIntent(v, lacking) ==
  [v EXCEPT !.items = [i \in DOMAIN @ |->
     IF @[i].key \notin lacking THEN @[i] ELSE Item(@[i].key, ThenMeant(@[i].key))]]

\* Releases before the proposal's correction could be turned off, before a run
\* recorded its initialization and before a task had policies.
Vintages == {{"mh_correction"}, {"initialization"}, {"initialization", "stopping"}}

OlderRelease(v, lacking) ==
  /\ v.tag = "dataclass" /\ CanonicalPayload(v, registry) # Refused
  /\ lacking \subseteq Keys(v.items)
  /\ OtherRelease(Envelope(WithoutFields(CanonicalPayload(v, registry), lacking)),
                  IF v.text = "run" THEN Foreign ELSE OlderIntent(v, lacking))

NewerRelease(v) ==
  OtherRelease([Envelope(CanonicalPayload(v, registry)) EXCEPT !.version = 2], Foreign)

\* The disk returns other bytes of the file the path names: of the payload, of
\* its digest, or of all that held them together.
Damage(bytes) ==
  /\ named # 0 /\ Cardinality(damaged) < MaxDamage /\ named \notin damaged
  /\ files' = [files EXCEPT ![named] =
       CASE bytes = "payload" -> [@ EXCEPT !.payload = Atom("int", "7")]
         [] bytes = "digest"  -> [@ EXCEPT !.digest = Atom("int", "7")]
         [] bytes = "version" -> [@ EXCEPT !.version = 0]
         [] bytes = "format"  -> Scrap]
  /\ damaged' = damaged \cup {named}
  /\ UNCHANGED <<registry, intents, named, process, loaded>>

\* open(path) for reading.
OpenFile(p) ==
  /\ process[p] = Idle /\ named # 0
  /\ process' = [process EXCEPT ![p] = [at |-> "reading", file |-> named, text |-> Refused]]
  /\ UNCHANGED <<registry, files, intents, named, damaged, loaded>>

\* (bug) the payload is decoded whatever it hashes to
Verified_Unhashed(envelope) == envelope.format = "bayesmith-artifact" /\ envelope.version = 1

\* load_artifact before it decodes: the marker, a version it reads (a newer
\* one is UnsupportedSchemaVersion), and the digest.
Verified(envelope) ==
  /\ envelope.format = "bayesmith-artifact" /\ envelope.version = 1
  /\ envelope.digest = envelope.payload

\* The rest of load_artifact.
LoadArtifact(p, expected) ==
  /\ process[p].at = "reading"
  /\ LET envelope == files[process[p].file]
     IN loaded' =
          [file |-> process[p].file, expected |-> expected,
           value |-> IF Verified(envelope)
                       THEN CanonicalLoads(envelope.payload, registry, expected)
                       ELSE Refused]
  /\ process' = [process EXCEPT ![p] = Idle]
  /\ UNCHANGED <<registry, files, intents, named, damaged>>

ArchiveNext ==
  \/ \E cls \in Classes : Import(cls)
  \/ \E v \in Artifacts :
       \/ \E p \in Processes : BeginDump(p, v)
       \/ \E lacking \in Vintages : OlderRelease(v, lacking)
       \/ NewerRelease(v)
  \/ \E bytes \in {"payload", "digest", "version", "format"} : Damage(bytes)
  \/ \E p \in Processes :
       \/ StartWriting(p) \/ FinishWriting(p) \/ Replace(p) \/ AbandonDump(p)
       \/ OpenFile(p) \/ \E expected \in {"any", "task"} : LoadArtifact(p, expected)

-----------------------------------------------------------------------------
ArchiveSpec == ArchiveInit /\ [][ArchiveNext]_archive

\* What comes back from a load means what the writer meant: through any
\* sequence of dumps, failures, damage, releases and registrations, whatever
\* an older release left out, and never what no release of this format wrote.
\* And a load fails for a cause: the bytes were altered, a release this one
\* cannot read wrote them, or the caller expected something else. No reader
\* meets a dump half done, and no dump that succeeded is unreadable.
LoadedIsWhatWasDumped ==
  loaded.file # 0 =>
    LET intent == intents[loaded.file]
    IN IF loaded.value # Refused
         THEN intent # Foreign /\ Meaning(loaded.value) = Meaning(intent)
         ELSE \/ loaded.file \in damaged
              \/ intent = Foreign
              \/ loaded.expected # "any" /\ intent.text # loaded.expected

\* One fingerprint per meaning, whatever has been registered: two values have one
\* canonical payload exactly if they differ in nothing but the order of a
\* mapping, the offset of an instant, the bits of a NaN or the layout of an array.
FingerprintFollowsMeaning ==
  LET fingerprint == [v \in Samples |-> CanonicalPayload(v, registry)]
      meaning == [v \in Samples |-> Meaning(v)]
  IN \A v, w \in {x \in Samples : fingerprint[x] # Refused} :
       (fingerprint[v] = fingerprint[w]) = (meaning[v] = meaning[w])

\* A class that is registered finds it so and leaves it so; no file is read.
FingerprintsFollowMeaning ==
  [][files = <<>> /\ registry' # registry => FingerprintFollowsMeaning /\ FingerprintFollowsMeaning']_registry
=============================================================================
