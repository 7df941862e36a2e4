------------------------------ MODULE JsonStore ------------------------------
(***************************************************************************)
(* What happens to a FAPI object, a policy, an event or a setting between  *)
(* memory and its JSON file: written by the ifapi_json_X_serialize of its  *)
(* type, read back by the ifapi_json_X_deserialize, and, for a policy,     *)
(* instantiated and calculated in between (ifapi_policy_instantiate.c,     *)
(* ifapi_policy_calculate.c).  The functions themselves are the entries of *)
(* the four tables; here is what an entry does.                            *)
(*                                                                         *)
(* A value is looked at one level deep: of a structure, which optional     *)
(* members are set and the selector of its unions.  What a member holds is *)
(* the business of its own type, which is checked the same way, so that a  *)
(* structure survives its file if the types of its fields agree in both    *)
(* tables and each of them survives.                                       *)
(***************************************************************************)
EXTENDS TpmJsonWriter, TpmJsonReader, FapiJsonWriter, FapiJsonReader, FiniteSets, TLC

CONSTANTS
    Types,         \* the types that are tried
    BitsPerByte    \* integers are this much narrower than in the code

ASSUME StoreAssumption == BitsPerByte \in Nat \ {0}

VARIABLES
    type,      \* the type of everything below
    memory,    \* the value in memory
    file,      \* the JSON document
    stored,    \* the value that was last given to the writer
    origin,    \* where the value in memory, or last in memory, came from
    last,      \* the result of the last call
    settled    \* the policy after it was instantiated and calculated

vars == <<type, memory, file, stored, origin, last, settled>>

NoValue == [none |-> TRUE]
NoDoc == [missing |-> TRUE]

Writer == TpmWriter @@ FapiWriter
Reader == TpmReader @@ FapiReader
Written == type \in DOMAIN Writer
IsRead == type \in DOMAIN Reader

(***************************************************************************)
(* The tables.                                                             *)
(***************************************************************************)

\* The type at the end of a chain of aliases, which is never longer than two.
Once(T, t) == IF t \in DOMAIN T /\ T[t].kind = "alias" THEN T[t].of ELSE t
RootName(T, t) == Once(T, Once(T, t))
Root(T, t) == T[RootName(T, t)]

\* The fields of an entry, by number.
Where(e, P(_)) == {i \in DOMAIN e.fields : P(e.fields[i])}
NamesOf(e, S) == {e.fields[i].name : i \in S}
IsSelector(f) == f.selector # "none"
IsInline(f) == f.inline
Selectors(e) == Where(e, IsSelector)
SelectorType(e) == e.fields[CHOOSE i \in Selectors(e) : TRUE].selector

\* The arm of a union that a selector chooses; an arm that has no JSON of its
\* own (TPMS_EMPTY) is a missing field.
HasArm(T, union, sel) == sel \in DOMAIN T[union].arms
ArmOf(T, union, sel) == RootName(T, T[union].arms[sel])
Empty(T, union, sel) == HasArm(T, union, sel) /\ ArmOf(T, union, sel) = "TPMS_EMPTY"

\* A field of one type can be read as a field of the other.
Agree(as, t) == as = t \/ RootName(Reader, as) = RootName(Reader, t)

(***************************************************************************)
(* Constants: the tables of names (strip_prefix and the table search), the *)
(* lists of TPMI types, and the tables searched for the beginning of a     *)
(* name (strncasecmp with the length of the name).                         *)
(***************************************************************************)
CanName(e, token) ==
    /\ token \in e.tokens
    /\ e.kind = "in" /\ Root(Writer, e.of).kind = "names" => token \in Root(Writer, e.of).tokens

NoToken == "no token"

InTable(e, name) ==
    IF name \in e.tokens THEN name ELSE IF name \in DOMAIN e.as THEN e.as[name] ELSE NoToken

FirstBeginning(e, name) ==
    LET hits == {i \in DOMAIN e.order : e.order[i] = name \/ <<name, e.order[i]>> \in Begins} IN
    IF hits = {} THEN NoToken ELSE e.order[CHOOSE i \in hits : \A j \in hits : i <= j]

Named(e, name) ==
    CASE e.kind = "names" -> InTable(e, name)
      [] e.kind = "prefixed" -> FirstBeginning(e, name)
      [] e.kind = "in" /\ Root(Reader, e.of).kind = "names" ->
            LET token == InTable(Root(Reader, e.of), name) IN
            IF token \in e.tokens THEN token ELSE NoToken
      [] e.kind = "in" -> IF name \in e.tokens THEN name ELSE NoToken

(***************************************************************************)
(* Integers.  A UINT64 from 2^48 on is written as two halves.  The reader  *)
(* casts to the type and compares, so that it refuses what does not fit.   *)
(***************************************************************************)
Power(bytes) == 2 ^ (bytes * BitsPerByte)

WriteNumber(bytes, n) ==
    IF bytes = 8 /\ n >= Power(6)
    THEN [halves |-> <<n \div Power(4), n % Power(4)>>]
    ELSE [number |-> n]

\* A bug: the cast without the comparison.
ReadNumberUnchecked(bytes, d) ==
    IF "halves" \in DOMAIN d THEN [int |-> d.halves[1] * Power(4) + d.halves[2]]
    ELSE [int |-> d.number]

ReadNumber(bytes, d) ==
    IF "halves" \in DOMAIN d
    THEN IF bytes = 8 THEN [int |-> d.halves[1] * Power(4) + d.halves[2]] ELSE NoValue
    ELSE IF d.number < Power(bytes) THEN [int |-> d.number] ELSE NoValue

\* A handle goes through int32_t: the handles of transient and persistent
\* objects (0x80.., 0x81..) become negative, which the reader refuses.  For
\* an NV index the writer checks the range.
HandleKinds == {"pcr", "nv", "permanent", "transient", "persistent"}
Negative == {"transient", "persistent"}

(***************************************************************************)
(* Structures in memory: [members, blank, inner, sel].  Tracked are the    *)
(* members whose presence may differ; blank are the empty texts a writer   *)
(* tells from missing ones; the inner ones are optional members of a       *)
(* structure that is written in place, under a key of the outer one.       *)
(***************************************************************************)
NoEntry == Object(<< >>, NoLimit)
Struct(T, t) == IF t \in DOMAIN T /\ Root(T, t).kind = "object" THEN Root(T, t) ELSE NoEntry
Fixed == {"always", "or"}
Plain(f) == ~f.inline /\ f.selector = "none"
Optional(f) == Plain(f) /\ f.rule \notin Fixed

TrackedIn(we, re, both) ==
    LET w == NamesOf(we, Where(we, Plain))
        r == NamesOf(re, Where(re, Plain)) IN
    NamesOf(we, Where(we, Optional)) \cup NamesOf(re, Where(re, Optional))
    \cup (IF both THEN (w \ r) \cup (r \ w) ELSE {})

Tracked ==
    [t \in DOMAIN Writer \cup DOMAIN Reader |->
        TrackedIn(Struct(Writer, t), Struct(Reader, t), t \in DOMAIN Writer /\ t \in DOMAIN Reader)]

Shared(T, t, sel) ==
    LET e == Struct(T, t)
        inner(i) ==
            LET arm == Struct(T, ArmOf(T, e.fields[i].type, sel)) IN
            NamesOf(arm, Where(arm, Optional)) \cap Tracked[t] IN
    UNION {inner(i) : i \in {j \in Where(e, IsInline) : HasArm(T, e.fields[j].type, sel)}}

Blankable(f) == f.blank
BlankIn(t) == LET e == Struct(Writer, t) IN NamesOf(e, Where(e, Blankable))

\* The fields that are put into the document for a value.
Holds(f, v) ==
    /\ v.sel \notin f.unless
    /\ f.with = "none" \/ f.with \in v.members
    /\ f.without = "none" \/ f.without \notin v.members
    /\ \/ f.rule \in Fixed
       \/ f.name \in v.members
       \/ f.blank /\ f.name \in v.blank

CanSelect(f, v) ==
    IsSelector(f) /\ Holds(f, v) =>
        CanName(Root(Writer, f.selector), v.sel) /\ (f.only = {} \/ v.sel \in f.only)

TypeFor(T, f, sel) == IF f.arm THEN ArmOf(T, f.type, sel) ELSE f.type

WriteObject(e, t, v) ==
    LET held == {i \in DOMAIN e.fields : ~e.fields[i].inline /\ Holds(e.fields[i], v)}
        alone == {i \in held : e.fields[i].alone}
        put == IF alone # {} THEN alone ELSE held
        there == {i \in put : ~(e.fields[i].arm /\ Empty(Writer, e.fields[i].type, v.sel))}
        unions == {i \in put : e.fields[i].arm} \cup Where(e, IsInline)
        names == NamesOf(e, there)
        unset == Tracked[t] \ v.members
        field(n) == e.fields[CHOOSE i \in there : e.fields[i].name = n]
        entry(n) ==
            IF n \in names
            THEN [as |-> TypeFor(Writer, field(n), v.sel), set |-> n \notin unset]
            ELSE [as |-> "TPMS_POLICY", set |-> TRUE] IN
    IF /\ Cardinality({i \in put : e.fields[i].counted}) \in e.limit
       /\ \A i \in DOMAIN e.fields : CanSelect(e.fields[i], v)
       /\ \A i \in unions : HasArm(Writer, e.fields[i].type, v.sel)
    THEN [object |-> [n \in names \cup v.inner |-> entry(n)],
          sel |-> IF Selectors(e) \cap put # {} THEN v.sel ELSE "none"]
    ELSE NoDoc

\* A key, or its other name, is there and is not null.
Found(f, d) == f.name \in DOMAIN d.object \/ f.aka \in DOMAIN d.object
Entry(f, d) == d.object[IF f.name \in DOMAIN d.object THEN f.name ELSE f.aka]

CanRead(f, sel, d) ==
    /\ f.rule = "always" => Found(f, d)
    /\ f.rule = "refused" => ~Found(f, d)
    /\ Found(f, d) =>
        /\ f.arm => HasArm(Reader, f.type, sel)
        /\ \/ Agree(Entry(f, d).as, TypeFor(Reader, f, sel))
           \/ Agree(Entry(f, d).as, f.also)

ReadFields(e, t, sel, d) ==
    LET fs == e.fields
        all == {i \in DOMAIN fs : ~fs[i].inline /\ sel \notin fs[i].unless}
        alone == {i \in all : fs[i].alone /\ Found(fs[i], d)}
        taken == IF alone # {} THEN alone ELSE all
        found == {i \in taken : Found(fs[i], d)}
        counted == {i \in found : fs[i].counted /\ (fs[i].rule = "ifSet" => Entry(fs[i], d).set)}
        given == NamesOf(e, {i \in found : Entry(fs[i], d).set} \cup {i \in taken : fs[i].rule = "or"})
        blank == NamesOf(e, {i \in found : ~Entry(fs[i], d).set}) \cap BlankIn(t)
        implied == NamesOf(e, {i \in taken \ found : fs[i].like \in given}) IN
    IF /\ sel # NoToken
       /\ \A i \in taken : CanRead(fs[i], sel, d)
       /\ \A i \in DOMAIN fs : fs[i].inline => HasArm(Reader, fs[i].type, sel)
       /\ Cardinality(counted) \in e.limit
    THEN [members |-> (given \cup implied) \cap Tracked[t],
          blank |-> blank,
          inner |-> Shared(Reader, t, sel) \cap DOMAIN d.object,
          sel |-> sel]
    ELSE NoValue

\* The selector comes first: what is read of a union depends on it.
ReadObject(e, t, d) ==
    ReadFields(e, t, IF Selectors(e) = {} THEN "none" ELSE Named(Root(Reader, SelectorType(e)), d.sel), d)

(***************************************************************************)
(* The writer and the reader of any type.                                  *)
(***************************************************************************)
Write(e, t, v) ==
    CASE e.kind = "number" -> WriteNumber(e.bytes, v.int)
      [] e.kind = "handle" -> [handle |-> v.handle, negative |-> v.handle \in Negative]
      [] e.kind = "nvIndex" ->
            IF v.handle = "nv" THEN [handle |-> "nv", negative |-> FALSE] ELSE NoDoc
      [] e.kind \in {"names", "in"} -> IF CanName(e, v.token) THEN [name |-> v.token] ELSE NoDoc
      [] e.kind = "flags" -> [keys |-> e.tokens, on |-> v.bits \cap e.tokens]
      [] e.kind = "bytes" -> IF v.size <= e.max THEN [hex |-> v.size] ELSE NoDoc
      [] e.kind = "list" ->
            IF v.count <= e.max THEN [array |-> v.count, of |-> e.of] ELSE NoDoc
      [] e.kind = "pcrs" ->
            IF v.bytes <= e.bytes THEN [numbers |-> {p \in v.pcrs : p < e.pcrs}] ELSE NoDoc
      [] e.kind = "object" -> WriteObject(e, t, v)

Read(e, t, d) ==
    CASE e.kind = "number" -> ReadNumber(e.bytes, d)
      [] e.kind = "handle" -> IF d.negative THEN NoValue ELSE [handle |-> d.handle]
      [] e.kind \in {"names", "prefixed", "in"} ->
            IF Named(e, d.name) = NoToken THEN NoValue ELSE [token |-> Named(e, d.name)]
      [] e.kind = "flags" -> IF d.keys \subseteq e.tokens THEN [bits |-> d.on] ELSE NoValue
      [] e.kind = "bytes" -> IF d.hex <= e.max THEN [size |-> d.hex] ELSE NoValue
      [] e.kind = "list" ->
            IF d.array <= e.max /\ Agree(d.of, e.of) THEN [count |-> d.array] ELSE NoValue
      [] e.kind = "pcrs" -> [pcrs |-> d.numbers, bytes |-> e.bytes]
      [] e.kind = "object" -> ReadObject(e, t, d)

(***************************************************************************)
(* The values the FAPI makes itself, from its parameters and from what the *)
(* TPM returns: the boundaries of each type, the constants of the tables   *)
(* and those of the post-quantum algorithms, which the TPM and the unions  *)
(* know.  Policies are never made, only read.                              *)
(***************************************************************************)
PostQuantum ==
    [TPM2_ALG_ID |-> {"MLDSA", "MLKEM"}, TPMI_ALG_PUBLIC |-> {"MLDSA", "MLKEM"},
     TPMI_ALG_SIG_SCHEME |-> {"MLDSA"}]
Newer(t) == IF t \in DOMAIN PostQuantum THEN PostQuantum[t] ELSE {}

PolicyStructures ==
    {Writer["TPMU_POLICYELEMENT"].arms[p] : p \in PolicyTypes}
    \cup {"TPMT_POLICYELEMENT", "TPMS_POLICYBRANCH", "TPMS_POLICYAUTHORIZATION", "TPMS_POLICY"}
PolicyParts == {"TPMS_PCRVALUE"}

\* Nothing is created with a public area of type NULL.
NotMade == {<<"TPMT_PUBLIC", "NULL">>, <<"IFAPI_KEY", "NULL">>}

\* Bits of the type that no table has.
OtherBits(t) == IF t = "TPMA_OBJECT" THEN {"X509SIGN"} ELSE {}

\* Enough of the subsets: nothing, everything, one of it, all but one; and of a
\* small set two.
Nearly(S) == {{}, S} \cup {{a} : a \in S} \cup {S \ {a} : a \in S}
SmallSet == 9
Few(S) == Nearly(S) \cup (IF Cardinality(S) <= SmallSet THEN {{a, b} : a, b \in S} ELSE {})

\* A field that is written with another one is set with it.
Consistent(e, members) ==
    \A i \in DOMAIN e.fields : LET f == e.fields[i] IN
        f.with # "none" => (f.name \in members <=> f.with \in members)

SelectorValues(T, e) ==
    IF Selectors(e) = {} THEN {"none"}
    ELSE LET s == Root(T, SelectorType(e)) IN
         (IF s.kind = "prefixed" THEN {s.order[i] : i \in DOMAIN s.order} ELSE s.tokens)
            \cup Newer(SelectorType(e))

PcrSamples == {0, 23, 24, 31}

Made(e, t) ==
    CASE e.kind = "number" ->
            {[int |-> n] : n \in {0, 1, Power(e.bytes) - 1, Power(e.bytes) \div 2}
                                 \cup (IF e.bytes = 8 THEN {Power(6) - 1, Power(6)} ELSE {})}
      [] e.kind = "handle" -> {[handle |-> h] : h \in HandleKinds}
      [] e.kind = "nvIndex" -> {[handle |-> "nv"]}
      [] e.kind \in {"names", "in"} -> {[token |-> k] : k \in e.tokens \cup Newer(t)}
      [] e.kind = "flags" -> {[bits |-> b] : b \in Nearly(e.tokens \cup OtherBits(t))}
      [] e.kind = "bytes" -> {[size |-> n] : n \in {0, 1, e.max}}
      [] e.kind = "list" -> {[count |-> n] : n \in {0, 1, e.max}}
      [] e.kind = "pcrs" ->
            {v \in [pcrs : SUBSET PcrSamples, bytes : 3 .. 4] : \A p \in v.pcrs : p < 8 * v.bytes}
      [] e.kind = "object" ->
            UNION {{[members |-> m, blank |-> {}, inner |-> i, sel |-> s] :
                        m \in {x \in Few(Tracked[t]) : Consistent(e, x)},
                        i \in SUBSET Shared(Writer, t, s)} :
                    s \in {k \in SelectorValues(Writer, e) :
                             /\ <<t, k>> \notin NotMade
                             /\ \A i \in Selectors(e) : e.fields[i].only = {} \/ k \in e.fields[i].only}}

\* Documents that people write (policies, profiles, the configuration) or that
\* another version wrote: what the reader needs, any of the optional keys, at
\* most one of them with an empty value.
AuthoredObject(e, s) ==
    LET keys == {i \in DOMAIN e.fields : ~e.fields[i].inline /\ s \notin e.fields[i].unless}
        need == NamesOf(e, {i \in keys : e.fields[i].rule = "always"})
        may == NamesOf(e, keys) \ need
        field(n) == e.fields[CHOOSE i \in keys : e.fields[i].name = n]
        texts == {n \in may : field(n).type = "char"}
        as(f) == IF f.arm /\ HasArm(Reader, f.type, s) THEN ArmOf(Reader, f.type, s) ELSE f.type
        types == [n \in need \cup may |-> as(field(n))]
        document(o, z) ==
            [object |-> [n \in need \cup o |-> [as |-> types[n], set |-> n \notin z]], sel |-> s] IN
    UNION {{document(o, z) : z \in {{}} \cup {{n} : n \in o \cap texts}} : o \in Few(may)}

Authored(e, t) ==
    CASE e.kind = "number" ->
            {[number |-> n] : n \in {0, Power(e.bytes) - 1, Power(e.bytes)}}
            \cup (IF e.bytes = 8 THEN {[halves |-> <<1, 0>>]} ELSE {})
      [] e.kind = "handle" -> {[handle |-> h, negative |-> FALSE] : h \in HandleKinds}
      [] e.kind = "names" -> {[name |-> n] : n \in e.tokens \cup DOMAIN e.as \cup Newer(t)}
      [] e.kind = "prefixed" -> {[name |-> e.order[i]] : i \in DOMAIN e.order}
      [] e.kind = "in" -> {[name |-> n] : n \in e.tokens \cup Newer(t)}
      [] e.kind = "flags" -> {[keys |-> k, on |-> k] : k \in Nearly(e.tokens \cup {"unknown"})}
      [] e.kind = "bytes" -> {[hex |-> n] : n \in {0, 1, e.max, e.max + 1}}
      [] e.kind = "list" -> {[array |-> n, of |-> e.of] : n \in {0, 1, e.max, e.max + 1}}
      [] e.kind = "pcrs" -> {[numbers |-> s] : s \in SUBSET PcrSamples}
      [] e.kind = "object" -> UNION {AuthoredObject(e, s) : s \in SelectorValues(Reader, e)}

(***************************************************************************)
(* Policies.  Instantiating replaces what refers to the keystore or to the *)
(* TPM (paths, PEM keys, current PCRs) by what it stands for.  The result  *)
(* of Instantiated is the set of outcomes; none when something is missing. *)
(***************************************************************************)
Change(v, set, clear) ==
    [v EXCEPT !.members = (@ \cup set) \ clear, !.blank = @ \ (set \cup clear)]

\* A bug: the name is cleared with the path.
KeyInstantiatedUnnamed(v, name, renames) ==
    LET m == v.members IN
    IF "keyPublic" \in m THEN {Change(v, {}, {"keyPath", name})}
    ELSE IF "keyPEM" \in m THEN {Change(v, {"keyPublic", name}, {"keyPEM"})}
    ELSE IF "keyPath" \in m THEN {Change(v, {"keyPublic", name}, {"keyPath"})}
    ELSE {}

\* A bug: the path stays, next to the public area.
KeyInstantiatedWithPath(v, name, renames) ==
    LET m == v.members IN
    IF "keyPublic" \in m THEN {Change(v, renames, {})}
    ELSE IF m \cap {"keyPEM", "keyPath"} # {} THEN {Change(v, {"keyPublic", name}, {"keyPEM"})}
    ELSE {}

\* keyPublic, else keyPEM, else keyPath; the name comes with the public area.
KeyInstantiated(v, name, renames) ==
    LET m == v.members IN
    IF "keyPublic" \in m THEN {Change(v, renames, {"keyPath"})}
    ELSE IF "keyPEM" \in m THEN {Change(v, {"keyPublic", name}, {"keyPEM"})}
    ELSE IF "keyPath" \in m THEN {Change(v, {"keyPublic", name}, {"keyPath"})}
    ELSE {}

\* A bug: newParentPublic stays, next to the name.
DuplicationSelectWithPublic(v) ==
    LET m == v.members IN
    IF "newParentName" \in m THEN {v}
    ELSE IF {"newParentPublic", "newParentPath"} \cap m # {}
         THEN {Change(v, {"newParentName"}, {"newParentPath"})}
    ELSE {}

DuplicationSelectInstantiated(v) ==
    LET m == v.members IN
    IF "newParentName" \in m THEN {v}
    ELSE IF {"newParentPublic", "newParentPath"} \cap m # {}
         THEN {Change(v, {"newParentName"}, {"newParentPublic", "newParentPath"})}
    ELSE {}

\* Without paths there are no names (count = 0) and objectNames[count - 1] is
\* outside of the array: the call may then do nothing, or fail.
NameHashInstantiated(v) ==
    IF "namePaths" \in v.members THEN {Change(v, {"objectNames"}, {"namePaths"})}
    ELSE IF "objectNames" \in v.members THEN {v}
    ELSE {v, NoValue}

Instantiated(t, v) ==
    LET m == v.members IN
    CASE t = "TPMS_POLICYSIGNED" -> KeyInstantiated(v, "publicKey", {})
      [] t = "TPMS_POLICYAUTHORIZE" -> KeyInstantiated(v, "keyName", {"keyName"})
      [] t = "TPMS_POLICYSECRET" ->
            IF {"objectName", "objectPath"} \cap m = {} THEN {}
            ELSE {Change(v, {"objectName"}, {"objectPath"})}
      [] t = "TPMS_POLICYPCR" ->
            IF "pcrs" \in m THEN {v}
            ELSE {Change(v, {"pcrs"}, {"currentPCRs", "currentPCRandBanks"})}
      [] t = "TPMS_POLICYNV" -> {Change(v, {"nvIndex", "nvPublic"}, {"nvPath"})}
      [] t = "TPMS_POLICYDUPLICATIONSELECT" -> DuplicationSelectInstantiated(v)
      [] t = "TPMS_POLICYAUTHORIZENV" ->
            IF {"nvPath", "nvPublic"} \cap m = {} THEN {}
            ELSE {Change(v, {"nvPublic"}, {"nvPath"})}
      [] t = "TPMS_POLICYNAMEHASH" -> NameHashInstantiated(v)
      [] OTHER -> {v}

\* The digest of the policy is computed; the hash of the names becomes part of
\* the policy.
ifapi_calculate_policy_name_hash(v) == Change(v, {"nameHash"}, {})
Calculated(t, v) == IF t = "TPMS_POLICYNAMEHASH" THEN ifapi_calculate_policy_name_hash(v) ELSE v

(***************************************************************************)
(* The calls.                                                              *)
(***************************************************************************)
Init ==
    /\ type \in Types
    /\ memory = NoValue /\ file = NoDoc /\ stored = NoValue
    /\ origin = "none" /\ last = "none" /\ settled = NoValue

\* The FAPI makes a value: Fapi_CreateKey, Fapi_Quote, Fapi_GetInfo, ...
Make ==
    /\ origin = "none" /\ Written /\ type \notin PolicyStructures \cup PolicyParts
    /\ memory' \in Made(Root(Writer, type), type)
    /\ origin' = "made"
    /\ UNCHANGED <<type, file, stored, last, settled>>

\* A file from elsewhere is put into the keystore or the profile directory.
Author ==
    /\ origin = "none" /\ file = NoDoc /\ IsRead
    /\ file' \in Authored(Root(Reader, type), type)
    /\ origin' = "file"
    /\ UNCHANGED <<type, memory, stored, last, settled>>

\* ifapi_keystore_store, Fapi_GetInfo and others: write, then free the value.
Store ==
    /\ memory # NoValue /\ Written
    /\ origin # "instantiated"
    /\ \E d \in {Write(Root(Writer, type), type, memory)} :
       /\ file' = IF d = NoDoc THEN file ELSE d
       /\ last' = IF d = NoDoc THEN "unstored" ELSE "stored"
    /\ stored' = memory
    /\ memory' = NoValue
    /\ UNCHANGED <<type, origin, settled>>

\* ifapi_keystore_load, profiles and policies: parse and read.
Load ==
    /\ memory = NoValue /\ file # NoDoc /\ IsRead /\ last \notin {"unstored", "unread"}
    /\ memory' = Read(Root(Reader, type), type, file)
    /\ last' = IF memory' = NoValue THEN "unread" ELSE "read"
    /\ origin' = IF stored = NoValue \/ last = "failed" THEN "file" ELSE origin
    /\ UNCHANGED <<type, file, stored, settled>>

\* ifapi_policyeval_instantiate_async and _finish.
Instantiate ==
    /\ memory # NoValue /\ type \in PolicyStructures /\ origin \in {"file", "calculated"}
    /\ \/ /\ memory' \in Instantiated(type, memory)
          /\ last' = IF memory' = NoValue THEN "failed" ELSE "ok"
       \/ Instantiated(type, memory) = {} /\ memory' = NoValue /\ last' = "failed"
    /\ origin' = "instantiated"
    /\ UNCHANGED <<type, file, stored, settled>>

\* ifapi_calculate_tree, which follows.
Calculate ==
    /\ memory # NoValue /\ origin = "instantiated"
    /\ memory' = Calculated(type, memory)
    /\ settled' = IF settled = NoValue THEN memory' ELSE settled
    /\ origin' = "calculated" /\ last' = "ok"
    /\ UNCHANGED <<type, file, stored>>

Next == Make \/ Author \/ Store \/ Load \/ Instantiate \/ Calculate

Spec == Init /\ [][Next]_vars

(***************************************************************************)
(* Properties.                                                             *)
(***************************************************************************)
Results == {"none", "ok", "stored", "unstored", "read", "unread", "failed"}
Origins == {"none", "made", "file", "instantiated", "calculated"}
Fits(v) ==
    /\ "int" \in DOMAIN v => v.int \in 0 .. Power(Root(Reader, type).bytes) - 1
    /\ "size" \in DOMAIN v => v.size \in 0 .. Root(Reader, type).max
    /\ "count" \in DOMAIN v => v.count \in 0 .. Root(Reader, type).max

\* Everything is of its type; in particular what is read fits into the integer
\* or the array of the structure (the checks of ifapi_json_UINT8_deserialize
\* and its kind, of ifapi_json_byte_deserialize and of the lists).
TypeOK ==
    /\ Written \/ IsRead
    /\ origin \in Origins /\ last \in Results
    /\ last = "read" => Fits(memory)
    /\ settled # NoValue => type \in PolicyStructures

\* The constants of the post-quantum algorithms, in a value of any kind.
Constant(v) ==
    IF "token" \in DOMAIN v THEN v.token ELSE IF "sel" \in DOMAIN v THEN v.sel ELSE "none"
OfPostQuantum(v) == Constant(v) \in {"MLDSA", "MLKEM"}

\* What is written, and cannot be read: an IMA event lacks the name of its
\* template; two algorithms only the writer knows; handles from 0x80000000 on
\* are negative numbers; PolicyAuthorize may be written without a key; RSAES
\* has no details, which the reader of RSA schemes asks for.
WriterAhead ==
    \/ type = "IFAPI_IMA_EVENT"
    \/ type = "TPM2_ALG_ID" /\ stored.token \in {"TDES", "CMAC"}
    \/ type = "TPM2_HANDLE" /\ stored.handle \in Negative
    \/ /\ type = "TPMS_POLICYAUTHORIZE"
       /\ stored.members \cap {"keyPath", "keyPublic", "keyPEM"} = {} /\ stored.blank = {}
    \/ type = "TPMT_RSA_SCHEME" /\ stored.sel = "RSAES"

\* What ifapi_keystore_store or another writer has put into a file can be read
\* by the reader of the same type, whatever its members, its constants and its
\* sizes were.
StoredIsRead == last = "unread" /\ stored # NoValue => WriterAhead

\* Members that get lost: X509SIGN has no key; the fourth byte of a PCR
\* selection and its last PCR; the handle of the object in an NV file; a
\* template's own unique that was read without its flag; the names of
\* PolicyNameHash, which are not written beside their hash; and the policy of a
\* key to be duplicated shares its key in the document with the policy of the object.
Loses ==
    \/ type = "TPMA_OBJECT" /\ "X509SIGN" \in stored.bits
    \/ type \in {"TPMS_PCR_SELECT", "pcr_select"} /\ (stored.bytes > 3 \/ 31 \in stored.pcrs)
    \/ type = "IFAPI_NV" /\ "nv_object" \in stored.members
    \/ type = "IFAPI_KEY" /\ origin = "file"
    \/ type = "TPMS_POLICYNAMEHASH" /\ "objectNames" \in stored.members
    \/ type = "IFAPI_OBJECT" /\ stored.sel = "DUPLICATE_OBJ"

\* A value that comes back from its file is the value that was stored: the same
\* members set, the same arm of each union, the same constants, bits and
\* numbers.
RoundTrip == last = "read" /\ stored # NoValue => memory = stored \/ Loses

\* What is read, and cannot be written again: events of the firmware have no
\* writer in the union of the events; a template whose type NULL asks for a
\* unique; two limits and two ranges that only one side has; LAST of
\* TPM2_CC has no name of its own; an empty text counts for the reader, and
\* in most structures it does not for the writer.
ReaderAhead ==
    \/ type = "IFAPI_EVENT" /\ stored.sel = "PC_CLIENT"
    \/ type = "IFAPI_KEY" /\ stored.sel = "NULL"
    \/ type = "TPM2B_DATA" /\ stored.size > 64
    \/ type = "TPM2_CC" /\ stored.token = "SignSequenceStart"
    \/ type = "TPMI_RH_NV_INDEX" /\ stored.handle # "nv"
    \/ type = "TPMT_TK_CREATION" /\ stored.sel # "CREATION"
    \/ type = "TPMS_PCRVALUE" /\ stored.sel = "NULL"
    \/ /\ type \in {"TPMS_POLICYNV", "TPMS_POLICYSECRET", "TPMS_POLICYSIGNED"}
       /\ \E n \in DOMAIN file.object : ~file.object[n].set

\* A document that was accepted from outside can be stored: Fapi_Import, for
\* one, reads what it is given and writes it to the keystore.
ReadCanBeStored == last = "unstored" /\ origin = "file" => ReaderAhead

\* The FAPI can store whatever it makes itself, up to the limits of each type,
\* except for the post-quantum algorithms, the firmware events, and the two
\* capabilities that have no arm.
MadeCanBeStored ==
    last = "unstored" /\ origin = "made" =>
        \/ OfPostQuantum(stored)
        \/ type = "IFAPI_EVENT" /\ stored.sel = "PC_CLIENT"
        \/ type = "TPMS_CAPABILITY_DATA" /\ stored.sel \in {"VENDOR_PROPERTY", "LAST"}

\* A policy that was instantiated and calculated can be stored with the object
\* it belongs to (ifapi_calculate_tree, then ifapi_keystore_store): exactly one
\* of the alternatives is left.
CalculatedCanBeStored == last = "unstored" => origin # "calculated"

\* Calculating the policy again, before or after it was stored, changes nothing:
\* the digest that the object was created with stays the digest of the policy.
\* For PolicyNameHash the names are gone.
Settles ==
    origin = "calculated" /\ memory # NoValue /\ type # "TPMS_POLICYNAMEHASH" => memory = settled

\* A policy that was calculated refers neither to the keystore nor to the
\* current PCRs, so that executing it later does not depend on what has changed
\* there ("Clear keypath, only public data and name will be needed").
References ==
    {"keyPath", "keyPEM", "objectPath", "nvPath", "newParentPath", "namePaths", "currentPCRs",
     "currentPCRandBanks"}
NeedsNoKeystore ==
    origin = "calculated" /\ memory # NoValue => memory.members \cap References = {}

\* The parts above, as they are checked.

\* What is stored comes back from its file as it was (the writer and the reader
\* of each type).
ComesBack == StoredIsRead /\ RoundTrip

\* What was read, made or calculated can be stored (the readers, the structures
\* FAPI fills, and ifapi_policyeval_instantiate_finish, against the writers).
CanBeStored == ReadCanBeStored /\ MadeCanBeStored /\ CalculatedCanBeStored

\* A policy that was calculated is final (ifapi_calculate_tree).
PolicySettles == Settles /\ NeedsNoKeystore

=============================================================================
