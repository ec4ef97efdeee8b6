------------------------------- MODULE RegRepl -------------------------------
(***************************************************************************)
(* regrepl: walks through a registry key and its subkeys and replaces text *)
(* in values.  Data is a sequence of bytes, 0 is the NUL; strings end with *)
(* one, lists of strings with two.                                         *)
(***************************************************************************)
EXTENDS Naturals, Sequences, FiniteSets

CONSTANTS
    Keys, Root,
    Sub,        \* subkeys of each key, in order
    Vals,       \* values of each key, in order
    Type,       \* "sz", "multi" or "binary" for each value
    Registries, \* what the registry may hold
    Froms, Tos, \* texts to search for and to put in their place
    Cap         \* sizeof cNewData

Once(items) ==
    \A j, k \in Keys : \A a \in DOMAIN items[j], b \in DOMAIN items[k] :
        items[j][a] = items[k][b] => j = k /\ a = b

\* Every key but the root is the subkey of one key, every value is of one key.
ASSUME TreeAssumption ==
    /\ IsFiniteSet(Keys) /\ Root \in Keys
    /\ Sub \in [Keys -> Seq(Keys)] /\ Once(Sub)
    /\ \A k \in Keys : \A a \in DOMAIN Sub[k] : Sub[k][a] # Root
    /\ \A K \in SUBSET Keys :
        Root \in K /\ (\A k \in K : \A a \in DOMAIN Sub[k] : Sub[k][a] \in K) => K = Keys
    /\ IsFiniteSet(DOMAIN Type)
    /\ Vals \in [Keys -> Seq(DOMAIN Type)] /\ Once(Vals)
    /\ \A v \in DOMAIN Type : \E k \in Keys : \E a \in DOMAIN Vals[k] : v = Vals[k][a]

\* A string has a NUL at its end and nowhere else, a list two at its end and nowhere else;
\* a list without strings may be a single one.
WellFormed(type, data) ==
    /\ type = "sz" => \A i \in 1 .. Len(data) : data[i] = 0 <=> i = Len(data)
    /\ type = "multi" =>
        /\ \A i \in 1 .. Len(data) - 1 : data[i] = 0 /\ data[i + 1] = 0 <=> i = Len(data) - 1
        /\ Len(data) = 1 => data[1] = 0

ASSUME DataAssumption ==
    /\ Type \in [DOMAIN Type -> {"sz", "multi", "binary"}]
    /\ Registries \subseteq [DOMAIN Type -> Seq(Nat)]
    /\ \A r \in Registries : \A v \in DOMAIN Type : WellFormed(Type[v], r[v])
    /\ Froms \subseteq Seq(Nat \ {0}) \ {<<>>} /\ Tos \subseteq Seq(Nat \ {0})
    /\ Cap \in Nat

VARIABLES
    reg,
    pc,
    stack,    \* for each call of DoSubKey: key, loop and index
    cNewData, \* the static buffer, with what earlier replacements left there
    bCancel,
    dwReplaceCounter, dwReplaceErrorCounter, dwErrorCounter,
    cFrom, cTo,
    original, \* history: the registry before
    uncounted \* history: failures that no counter shows

vars == <<reg, pc, stack, cNewData, bCancel, dwReplaceCounter, dwReplaceErrorCounter,
          dwErrorCounter, cFrom, cTo, original, uncounted>>
counters == <<dwReplaceCounter, dwReplaceErrorCounter, dwErrorCounter>>
given == <<cFrom, cTo, original>>

TypeOK ==
    /\ DOMAIN reg = DOMAIN Type
    /\ pc \in {"search", "done", "overrun"}
    /\ \A i \in DOMAIN stack :
        stack[i].key \in Keys /\ stack[i].loop \in {"values", "keys"} /\ stack[i].index \in Nat
    /\ Len(cNewData) = Cap
    /\ bCancel \in BOOLEAN
    /\ dwReplaceCounter + dwReplaceErrorCounter <= Cardinality(DOMAIN Type)
    /\ dwErrorCounter + uncounted <= Cardinality(Keys) + Cardinality(DOMAIN Type)

Call(key) == [key |-> key, loop |-> "values", index |-> 1]

Init ==
    /\ reg \in Registries
    /\ pc = "search"
    /\ stack = <<Call(Root)>>
    /\ cNewData = [i \in 1 .. Cap |-> 0]
    /\ bCancel = FALSE
    /\ dwReplaceCounter = 0 /\ dwReplaceErrorCounter = 0 /\ dwErrorCounter = 0
    /\ cFrom \in Froms
    /\ cTo \in Tos \ {cFrom}
    /\ original = reg
    /\ uncounted = 0
-----------------------------------------------------------------------------
(* ReplaceInString, with its three loops over what is left of the old data. *)

Part(data, first, last) == SubSeq(data, first, IF last < Len(data) THEN last ELSE Len(data))
IsAt(text, data, i) == Part(data, i, i + Len(text) - 1) = text

\* strstr, memstr and memwcs: first place of a text before last, 0 if there is none.
Found(text, data, old, last, step) ==
    LET places == {i \in old .. last - Len(text) : (i - old) % step = 0 /\ IsAt(text, data, i)}
    IN  IF places = {} THEN 0 ELSE CHOOSE i \in places : \A j \in places : i <= j

Nul(data, old) == CHOOSE i \in old .. Len(data) : data[i] = 0 /\ \A j \in old .. i - 1 : data[j] # 0

Wide(text) == [i \in 1 .. 2 * Len(text) |-> IF i % 2 = 1 THEN text[(i + 1) \div 2] ELSE 0]

At(old, new) == [old |-> old, new |-> new]
Outcome(how, new) == [how |-> how, new |-> new]

\* Defect.
After_OneByte(i, from) == i + 1
After(i, from) == i + Len(from)

\* Strings and binary data, up to last.  A string needs a byte more.  The room for
\* wide characters is taken for that of as many bytes.
Replaced(data, last, from, to, step, more) ==
    LET Loop[at \in [old : 1 .. last, new : Seq(Nat)]] ==
            LET i == Found(from, data, at.old, last, step)
                found == at.new \o Part(data, at.old, i - 1) \o to
                rest == at.new \o Part(data, at.old, last - 1)
            IN  IF i = 0 THEN
                    IF at.old = 1 THEN Outcome("same", <<>>)
                    ELSE IF Len(rest) + more > Cap THEN Outcome("big", at.new)
                    ELSE Outcome("set", rest)
                ELSE IF Len(found) - Len(to) + Len(to) \div step + more > Cap THEN Outcome("big", at.new)
                ELSE IF Len(found) > Cap THEN Outcome("overrun", at.new)
                ELSE Loop[At(After(i, from), found)]
    IN  Loop[At(1, <<>>)]

\* String after string, each with its NUL, up to an empty one.
ReplacedInList(data, from, to) ==
    LET Loop[at \in [old : 1 .. Len(data) - 1, new : Seq(Nat), done : BOOLEAN]] ==
            LET last == Nul(data, at.old)
                i == Found(from, data, at.old, last, 1)
                found == at.new \o Part(data, at.old, i - 1) \o to
                rest == at.new \o Part(data, at.old, last)
            IN  IF (i = 0 /\ Len(rest) >= Cap) \/ (i # 0 /\ Len(found) >= Cap - 1)
                THEN Outcome("big", at.new)
                ELSE IF i # 0 THEN Loop[[old |-> After(i, from), new |-> found, done |-> TRUE]]
                ELSE IF data[last + 1] # 0 THEN Loop[[at EXCEPT !.old = last + 1, !.new = rest]]
                ELSE Outcome(IF at.done THEN "set" ELSE "same", rest)
    IN  Loop[[old |-> 1, new |-> <<>>, done |-> FALSE]]

ReplaceInString(type, data) ==
    CASE type = "sz" ->
            LET r == Replaced(data, Nul(data, 1), cFrom, cTo, 1, 1)
            IN  [r EXCEPT !.new = IF r.how = "set" THEN Append(@, 0) ELSE @]
      [] type = "multi" -> ReplacedInList(data, cFrom, cTo)
      [] type = "binary" ->
            IF Found(cFrom, data, 1, Len(data) + 1, 1) # 0
            THEN Replaced(data, Len(data) + 1, cFrom, cTo, 1, 0)
            ELSE Replaced(data, Len(data) + 1, Wide(cFrom), Wide(cTo), 2, 0)

\* The buffer after a replacement: a string that became too big has a NUL, and of
\* a list the two last bytes are cleared; the byte after its strings is what it was.
Filled(r, type) ==
    [i \in 1 .. Cap |->
        IF i <= Len(r.new) THEN r.new[i]
        ELSE IF type # "binary" /\ r.how = "big" /\ i = Len(r.new) + 1 /\ i > 1 THEN 0
        ELSE IF type = "multi" /\ r.how = "set" /\ i >= Cap - 1 THEN 0
        ELSE cNewData[i]]
Written(r, type) ==
    IF type = "multi" THEN Part(Filled(r, type), 1, Len(r.new) + 1) ELSE r.new
-----------------------------------------------------------------------------
(* DoSubKey. *)

Top == stack[Len(stack)]
In(loop) == pc = "search" /\ stack # <<>> /\ Top.loop = loop
Below == SubSeq(stack, 1, Len(stack) - 1)
Turn(loop, index) == stack' = Append(Below, [Top EXCEPT !.loop = loop, !.index = index])
NextItem == Turn(Top.loop, Top.index + 1)

\* DoEvents lets the user cancel, and so does each warning: all calls return.
Cancel ==
    /\ In("values") \/ In("keys")
    /\ Top.index <= Len(IF Top.loop = "values" THEN Vals[Top.key] ELSE Sub[Top.key])
    /\ bCancel' = TRUE
    /\ stack' = <<>>
    /\ UNCHANGED <<reg, pc, cNewData, counters, given, uncounted>>

EndOfValues ==
    /\ In("values") /\ Top.index > Len(Vals[Top.key])
    /\ Turn("keys", 1)
    /\ UNCHANGED <<reg, pc, cNewData, bCancel, counters, given, uncounted>>

value == Vals[Top.key][Top.index]

\* Data or a name that is too long: the rest of the values is passed over.
EnumValueFails ==
    /\ In("values") /\ Top.index <= Len(Vals[Top.key])
    /\ dwErrorCounter' = dwErrorCounter + 1
    /\ Turn("keys", 1)
    /\ UNCHANGED <<reg, pc, cNewData, bCancel, dwReplaceCounter, dwReplaceErrorCounter, given, uncounted>>

LongEnough(data) == Len(data) > Len(cFrom)

Pass ==
    /\ In("values") /\ Top.index <= Len(Vals[Top.key])
    /\ \/ ~ LongEnough(reg[value])
       \/ ReplaceInString(Type[value], reg[value]).how = "same"
    /\ NextItem
    /\ IF LongEnough(reg[value])
       THEN cNewData' = Filled(ReplaceInString(Type[value], reg[value]), Type[value])
       ELSE UNCHANGED cNewData
    /\ UNCHANGED <<reg, pc, bCancel, counters, given, uncounted>>

\* Defect.
SetValue_Again(r) ==
    /\ reg' = [reg EXCEPT ![value] = Written(r, Type[value])]
    /\ dwReplaceCounter' = dwReplaceCounter + 1
    /\ UNCHANGED stack

SetValue(r) ==
    /\ reg' = [reg EXCEPT ![value] = Written(r, Type[value])]
    /\ dwReplaceCounter' = dwReplaceCounter + 1
    /\ NextItem

Replace ==
    /\ In("values") /\ Top.index <= Len(Vals[Top.key])
    /\ LongEnough(reg[value])
    /\ LET r == ReplaceInString(Type[value], reg[value])
       IN  /\ r.how = "set"
           /\ cNewData' = Filled(r, Type[value])
           /\ \/ SetValue(r) /\ UNCHANGED dwReplaceErrorCounter
              \/ /\ dwReplaceErrorCounter' = dwReplaceErrorCounter + 1
                 /\ NextItem
                 /\ UNCHANGED <<reg, dwReplaceCounter>>
    /\ UNCHANGED <<pc, bCancel, dwErrorCounter, given, uncounted>>

TooBig ==
    /\ In("values") /\ Top.index <= Len(Vals[Top.key])
    /\ LongEnough(reg[value])
    /\ LET r == ReplaceInString(Type[value], reg[value])
       IN  /\ r.how \in {"big", "overrun"}
           /\ cNewData' = Filled(r, Type[value])
           /\ pc' = IF r.how = "overrun" THEN "overrun" ELSE pc
    /\ uncounted' = uncounted + 1
    /\ NextItem
    /\ UNCHANGED <<reg, bCancel, counters, given>>

\* Defect.
EndOfKeys_OfAll ==
    /\ In("keys") /\ Top.index > Len(Sub[Top.key])
    /\ stack' = <<>>
    /\ UNCHANGED <<reg, pc, cNewData, bCancel, counters, given, uncounted>>

EndOfKeys ==
    /\ In("keys") /\ Top.index > Len(Sub[Top.key])
    /\ stack' = Below
    /\ UNCHANGED <<reg, pc, cNewData, bCancel, counters, given, uncounted>>

EnumKeyFails ==
    /\ In("keys") /\ Top.index <= Len(Sub[Top.key])
    /\ stack' = Below
    /\ uncounted' = uncounted + 1
    /\ UNCHANGED <<reg, pc, cNewData, bCancel, counters, given>>

OpenKeyFails ==
    /\ In("keys") /\ Top.index <= Len(Sub[Top.key])
    /\ dwErrorCounter' = dwErrorCounter + 1
    /\ NextItem
    /\ UNCHANGED <<reg, pc, cNewData, bCancel, dwReplaceCounter, dwReplaceErrorCounter, given, uncounted>>

\* Defect.
OpenKey_Again ==
    /\ In("keys") /\ Top.index <= Len(Sub[Top.key])
    /\ stack' = Append(stack, Call(Sub[Top.key][Top.index]))
    /\ UNCHANGED <<reg, pc, cNewData, bCancel, counters, given, uncounted>>

OpenKey ==
    /\ In("keys") /\ Top.index <= Len(Sub[Top.key])
    /\ stack' = Append(Append(Below, [Top EXCEPT !.index = @ + 1]), Call(Sub[Top.key][Top.index]))
    /\ UNCHANGED <<reg, pc, cNewData, bCancel, counters, given, uncounted>>

Done ==
    /\ pc = "search" /\ stack = <<>>
    /\ pc' = "done"
    /\ UNCHANGED <<reg, stack, cNewData, bCancel, counters, given, uncounted>>

DoSubKey ==
    \/ Cancel \/ EndOfValues \/ EnumValueFails \/ Pass \/ Replace \/ TooBig
    \/ EndOfKeys \/ EnumKeyFails \/ OpenKeyFails \/ OpenKey \/ Done

Next == DoSubKey

Spec == Init /\ [][Next]_vars /\ WF_vars(DoSubKey)
-----------------------------------------------------------------------------
\* What is to come of data: from left to right, texts that do not overlap.
Expected(data, from, to, step) ==
    LET Rest[i \in Nat \ {0}] ==
            IF i > Len(data) THEN <<>>
            ELSE IF IsAt(from, data, i) THEN to \o Rest[i + Len(from)]
            ELSE Part(data, i, i + step - 1) \o Rest[i + step]
    IN  Rest[1]

Goal(v) ==
    LET narrow == Expected(original[v], cFrom, cTo, 1)
    IN  IF Type[v] = "binary" /\ narrow = original[v]
        THEN Expected(original[v], Wide(cFrom), Wide(cTo), 2) ELSE narrow

\* The byte after the strings of a list is not looked at, see Filled.
Alike(v, data, goal) ==
    IF Type[v] = "multi" THEN Len(data) = Len(goal) /\ \A i \in 1 .. Len(data) - 1 : data[i] = goal[i]
    ELSE data = goal

(* Nothing is replaced in half, nothing twice, and no other value is written. *)
OldOrNew == \A v \in DOMAIN reg : reg[v] = original[v] \/ Alike(v, reg[v], Goal(v))

(* The number of replacements that the program reports is that of changed values. *)
CountIsRight == dwReplaceCounter = Cardinality({v \in DOMAIN reg : reg[v] # original[v]})

\* What the program misses and does not count, because it looks only at data that is
\* longer than the text (regrepl.cpp:444): binary data that is the text and nothing else.
IsTheText(v) == Type[v] = "binary" /\ original[v] = cFrom

(* When the program says it is done, without key errors and without failures that it
   does not count, the values that still hold the text are the replacement errors and
   binary data that is nothing but the text. *)
AllReplaced ==
    pc = "done" /\ ~ bCancel /\ dwErrorCounter + uncounted = 0 =>
        Cardinality({v \in DOMAIN reg :
            reg[v] = original[v] /\ Goal(v) # original[v] /\ ~ IsTheText(v)}) = dwReplaceErrorCounter

(* The search ends. *)
SearchEnds == <>(pc \in {"done", "overrun"})
==============================================================================
