------------------------------ MODULE Metadata ------------------------------
(***************************************************************************)
(* MetadataImpl: what a codec, the filters and the tracer keep about a     *)
(* message.  Strings are kept twice, as a property under the key as it is  *)
(* written and as a header under the key in lower case, which is what      *)
(* routes are matched against.                                             *)
(***************************************************************************)
EXTENDS Integers, Sequences

CONSTANTS
    MetadataKeys,      \* keys of strings
    ObjectKeys,        \* keys a codec keeps other values under
    MetadataValues,    \* strings
    LowerCase,         \* the key in lower case: a function of Keys
    Object             \* a value that is no string

\* Strings and other values are kept under different keys.
MetadataConstants == MetadataKeys \cap ObjectKeys = {} /\ Object \notin MetadataValues

HeaderKeys == {LowerCase[k] : k \in MetadataKeys}

VARIABLES
    properties,    \* properties_: a set of at most one value for each key
    headers,       \* headers_ and response_headers_, which are changed alike
    copied         \* the object is a clone()

metadataVars == <<properties, headers, copied>>

MetadataInit ==
    /\ properties = [k \in MetadataKeys \cup ObjectKeys |-> {}]
    /\ headers = [h \in HeaderKeys |-> <<>>]
    /\ copied = FALSE

put(k) ==
    /\ properties' = [properties EXCEPT ![k] = {Object}]
    /\ UNCHANGED <<headers, copied>>

\* Mutant: an earlier value of the header stays.
PutStringAdds(k, v) ==
    /\ properties' = [properties EXCEPT ![k] = {v}]
    /\ headers' = [headers EXCEPT ![LowerCase[k]] = Append(@, v)]
    /\ UNCHANGED copied

\* set() is putString(): remove(), then addCopy() of the lower-case key.
putString(k, v) ==
    /\ properties' = [properties EXCEPT ![k] = {v}]
    /\ headers' = [headers EXCEPT ![LowerCase[k]] = <<v>>]
    /\ UNCHANGED copied

\* Mutant: the property is kept.
RemovesHeaderOnly(k) ==
    /\ headers' = [headers EXCEPT ![LowerCase[k]] = <<>>]
    /\ UNCHANGED <<properties, copied>>

\* remove() is removeString().
removeString(k) ==
    /\ properties' = [properties EXCEPT ![k] = {}]
    /\ headers' = [headers EXCEPT ![LowerCase[k]] = <<>>]
    /\ UNCHANGED copied

\* The copy's properties are put(), which makes no headers.
clone ==
    /\ headers' = [h \in HeaderKeys |-> <<>>]
    /\ copied' = TRUE
    /\ UNCHANGED properties

\* getStringPointer() and get(): an empty string counts as none.
get(k) == {v \in properties[k] : v # Object /\ v # ""}

MetadataNext ==
    \/ \E k \in ObjectKeys : put(k)
    \/ \E k \in MetadataKeys, v \in MetadataValues : putString(k, v)
    \/ \E k \in MetadataKeys : removeString(k)
    \/ clone

MetadataSpec == MetadataInit /\ [][MetadataNext]_metadataVars

----------------------------------------------------------------------------
\* Types of the variables.
MetadataTypeOK ==
    /\ properties \in [MetadataKeys \cup ObjectKeys -> SUBSET (MetadataValues \cup {Object})]
    /\ headers \in [HeaderKeys -> {<<>>} \cup [{1} -> MetadataValues]]
    /\ copied \in BOOLEAN

\* No other key is the same in lower case.
Alone(k) == \A j \in MetadataKeys : LowerCase[j] = LowerCase[k] => j = k

\* putString(): "the stored value will be used for routing".  As long as the
\* message is not a copy, a route sees every string that is stored, unless keys
\* differ only in case.
StoredIsRouted ==
    ~copied => \A k \in MetadataKeys, v \in MetadataValues :
                  v \in properties[k] /\ Alone(k) => headers[LowerCase[k]] = <<v>>

\* A route never sees what a tracer could not read with get(): the value of a
\* header is that of a property, also in a copy and for keys that differ only in
\* case.
RoutedIsStored ==
    \A h \in HeaderKeys : headers[h] # <<>> =>
        \E k \in MetadataKeys : LowerCase[k] = h /\ properties[k] = {Head(headers[h])}

\* The two stores of MetadataImpl say the same: what is stored is routed by, and what
\* is routed by is stored.
StringsRouted == StoredIsRouted /\ RoutedIsStored
=============================================================================
