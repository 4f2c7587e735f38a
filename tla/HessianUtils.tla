---------------------------- MODULE HessianUtils ----------------------------
(***************************************************************************)
(* HessianUtils::getParametersNumber(): the number of parameters in a type *)
(* descriptor of Java.  deserializeRpcInvocation() skips as many objects   *)
(* to find the attachments of a request.                                   *)
(***************************************************************************)
EXTENDS Integers, Sequences

CONSTANTS
    NameChars,    \* characters of class names, some of which also name types
    MaxParams,    \* bound on the parameters of a method
    MaxName,      \* bound on the length of a class name
    MaxDims       \* bound on the dimensions of an array

ArrayOf == "["
ObjectStart == "L"
ObjectEnd == ";"

\* A semicolon ends the name of a class.
HessianConstants == ObjectEnd \notin NameChars /\ MaxParams \in Nat /\ MaxName \in Nat /\ MaxDims \in Nat

PrimitiveChars == {"V", "Z", "B", "C", "D", "F", "I", "J", "S"}

Names == UNION {[1 .. n -> NameChars] : n \in 1 .. MaxName}

\* A parameter: an array of so many dimensions of a primitive type or a class.
Elements == {<<c>> : c \in PrimitiveChars} \cup {<<ObjectStart>> \o n \o <<ObjectEnd>> : n \in Names}

Params == {[i \in 1 .. d |-> ArrayOf] \o e : d \in 0 .. MaxDims, e \in Elements}

\* The descriptors of the parameters one after the other.
Descriptor(ps) ==
    LET before[n \in 0 .. Len(ps)] == IF n = 0 THEN <<>> ELSE before[n - 1] \o ps[n]
    IN  before[Len(ps)]

VARIABLES
    params,      \* the parameters described
    text,        \* parameters_type
    position,    \* the character the loop is at
    count,       \* count
    next,        \* next: inside the name of a class
    returned

hessianVars == <<params, text, position, count, next, returned>>

HessianInit ==
    /\ params \in UNION {[1 .. n -> Params] : n \in 0 .. MaxParams}
    /\ text = Descriptor(params) /\ position = 1
    /\ count = 0 /\ next = FALSE /\ returned = FALSE

\* A character that stands for a parameter; an array counts with its element.
Counts(ch) == ch # ArrayOf /\ ~next /\ ch \in PrimitiveChars \cup {ObjectStart}

\* Mutant: the end of a class name is not noticed.
NextNotReset(ch) == next \/ ch = ObjectStart

NextAfter(ch) ==
    CASE ch = ArrayOf -> next
      [] ch = ObjectEnd -> FALSE
      [] ch = ObjectStart -> TRUE
      [] OTHER -> next

\* One turn of the loop.
CountParameter ==
    /\ position <= Len(text)
    /\ count' = IF Counts(text[position]) THEN count + 1 ELSE count
    /\ next' = NextAfter(text[position])
    /\ position' = position + 1
    /\ UNCHANGED <<params, text, returned>>

ReturnCount ==
    /\ position > Len(text) /\ ~returned
    /\ returned' = TRUE
    /\ UNCHANGED <<params, text, position, count, next>>

HessianNext == CountParameter \/ ReturnCount

HessianSpec == HessianInit /\ [][HessianNext]_hessianVars

----------------------------------------------------------------------------
\* Types of the variables; the count never passes the number of parameters.
HessianTypeOK ==
    /\ position \in 1 .. Len(text) + 1 /\ count \in 0 .. Len(params)
    /\ next \in BOOLEAN /\ returned \in BOOLEAN

\* The number returned is the number of parameters, whatever letters the class
\* names and packages are made of.
ParametersCounted == returned => count = Len(params)
=============================================================================
