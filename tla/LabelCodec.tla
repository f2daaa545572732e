----------------------------- MODULE LabelCodec -----------------------------
(***************************************************************************)
(* How the page of a list request travels in its label selector:           *)
(* QueryListOptions of page/page.go writes "query notin (...)" with the    *)
(* values of SplittingValue, and parsePaginate of api/proxy.go puts them   *)
(* together with MergeValues (both of kube/label.go).  The selector parser *)
(* makes a set of the values and sorts them as strings.                    *)
(*                                                                         *)
(* A value is a sequence of characters; it is the JSON of the page, and    *)
(* base64, that the values hold in the code, is left out but for what it   *)
(* cannot do: it may hold "+" and "/", which no value of a label may.      *)
(* In the code PartLen is 56, Base 10 and Digits 4.                        *)
(***************************************************************************)
EXTENDS Integers, FiniteSets, Sequences, SequencesExt

CONSTANTS
    PartLen,    \* eachPartLen
    Base,       \* the base that offsets are printed in
    Digits,     \* the digits that an offset has at least ("%04d")
    Refusable   \* the words whose base64 may hold "+" or "/", such as "~" and "?"

ASSUME CodecAssumption ==
    PartLen \in Nat \ {0} /\ Base \in Nat \ {0, 1} /\ Digits \in Nat \ {0}

\* The digits are the remainders of repeated division, the last digit first.
DigitsOf(n, least) ==
    LET quotient[i \in 0..(least + n)] ==
            IF i = 0 THEN n ELSE quotient[i - 1] \div Base
        k == CHOOSE k \in least..(least + n) :
                 quotient[k] = 0 /\ (k = least \/ quotient[k - 1] # 0)
    IN [j \in 1..k |-> quotient[k - j] % Base]

\* Faulty variant: the offsets are printed without zeros in front.
PrintedUnpadded(n) == DigitsOf(n, 1)

Printed(n) == DigitsOf(n, Digits)

Smaller(a, b) == IF a < b THEN a ELSE b

LastPart(value) == (Len(value) - 1) \div PartLen

\* A short value is sent as it is, a long one in parts behind their offsets.
SplittingValue(value) ==
    IF Len(value) <= PartLen THEN {[at |-> <<>>, text |-> value]}
    ELSE {[at |-> Printed(PartLen * k),
           text |-> SubSeq(value, PartLen * k + 1, Smaller(PartLen * (k + 1), Len(value)))] :
             k \in 0..LastPart(value)}

\* As strings: the "." behind an offset is less than any digit.
Before(a, b) ==
    \E i \in 1..Len(b) :
        /\ \A j \in 1..(i - 1) : j <= Len(a) /\ a[j] = b[j]
        /\ i > Len(a) \/ a[i] < b[i]

MergeValues(values) ==
    LET place(v) == 1 + Cardinality({w \in values : Before(w.at, v.at)})
        sorted == [i \in 1..Cardinality(values) |-> CHOOSE v \in values : place(v) = i]
    IN FlattenSeq([i \in DOMAIN sorted |-> sorted[i].text])

\* The requirement of an earlier call is replaced; an empty page changes nothing.
QueryListOptions(values, page) == IF page = <<>> THEN values ELSE SplittingValue(page)

\* It fails when the label selector that the client has set is not readable, and when
\* the base64 holds one of the two: whether it does depends on where the word falls.
MaySend(page, readable) == page = <<>> \/ readable
MayFail(page, readable) ==
    page # <<>> /\ (~readable \/ Range(page) \cap Refusable # {})

\* The offset of the last part has more digits than the others may have.
TooLong(value) ==
    Len(value) > PartLen /\ Len(Printed(PartLen * LastPart(value))) > Digits
=============================================================================
