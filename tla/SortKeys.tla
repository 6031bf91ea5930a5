------------------------------ MODULE SortKeys ------------------------------
(* The sort keys by which a user's channels are ordered: fractional indices *)
(* such that a key can always be found between two others. A key is a head, *)
(* which fixes the length of the integer part, and digits. The code has 62  *)
(* digits and 26 heads of each sign; both are parameters here. A head is an *)
(* integer: 'a', 'b', ... are 0, 1, ... and 'Z', 'Y', ... are -1, -2, ...   *)
EXTENDS Integers, Sequences, SequencesExt

CONSTANTS
    Base,        \* number of digits, 62 in the code
    Heads,       \* heads of each sign, 26 in the code
    MaxKeys,     \* channels of the user
    MaxMoves,    \* insertions
    StartLength  \* longest key a client may give for the first channel

ASSUME SortKeyAssumption ==
    /\ Base \in Nat \ {0, 1} /\ Heads \in Nat \ {0}
    /\ MaxKeys \in Nat /\ MaxMoves \in Nat /\ StartLength \in Nat

Digits == 0..(Base - 1)
Strings == Seq(Int)
Failed == <<Heads>>
None == <<>>

\* Lexicographic order of two different strings.
Before(a, b) ==
    \/ IsStrictPrefix(a, b)
    \/ \E i \in 1..Len(a) : /\ i <= Len(b) /\ a[i] < b[i]
                            /\ SubSeq(a, 1, i - 1) = SubSeq(b, 1, i - 1)

getIntLen(head) == IF head >= 0 THEN head + 2 ELSE 1 - head

smallestInt == <<-Heads>> \o [i \in 1..Heads |-> 0]

getIntPart(key) == IF getIntLen(key[1]) > Len(key) THEN Failed ELSE SubSeq(key, 1, getIntLen(key[1]))

Fraction(key) == SubSeq(key, getIntLen(key[1]) + 1, Len(key))

validateOrderKey(key) ==
    /\ key # smallestInt /\ getIntPart(key) # Failed
    /\ Fraction(key) # <<>> => Last(key) # 0

\* A carry out of the digits: the next head has one digit more above zero, one
\* fewer below.
Carried(head, digits) == <<head>> \o (IF head > 0 THEN Append(digits, 0) ELSE Tail(digits))

\* A position with a digit that can still grow; the ones after it start again.
incrementInt(x) ==
    LET digs == Tail(x)
        open == {i \in DOMAIN digs : digs[i] # Base - 1 /\ \A j \in (i + 1)..Len(digs) : digs[j] = Base - 1}
        zeros == [i \in DOMAIN digs |-> 0]
    IN  IF open # {}
        THEN LET p == CHOOSE i \in open : TRUE
             IN  <<x[1]>> \o [i \in DOMAIN digs |-> IF i < p THEN digs[i] ELSE IF i = p THEN digs[i] + 1 ELSE 0]
        ELSE IF x[1] = -1 THEN <<0, 0>>
             ELSE IF x[1] = Heads - 1 THEN None ELSE Carried(x[1] + 1, zeros)

decrementInt(x) ==
    LET digs == Tail(x)
        open == {i \in DOMAIN digs : digs[i] # 0 /\ \A j \in (i + 1)..Len(digs) : digs[j] = 0}
        nines == [i \in DOMAIN digs |-> Base - 1]
    IN  IF open # {}
        THEN LET p == CHOOSE i \in open : TRUE
             IN  <<x[1]>> \o [i \in DOMAIN digs |-> IF i < p THEN digs[i] ELSE IF i = p THEN digs[i] - 1 ELSE Base - 1]
        ELSE IF x[1] = 0 THEN <<-1, Base - 1>>
             ELSE IF x[1] = -Heads THEN None
                  ELSE <<x[1] - 1>> \o (IF x[1] - 1 < -1 THEN Append(nines, Base - 1) ELSE Tail(nines))

DigitAt(a, i) == IF i <= Len(a) THEN a[i] ELSE 0

\* Length of the common prefix, a being filled with zeros.
Common(a, b) ==
    CHOOSE n \in 0..Len(b) : /\ \A i \in 1..n : DigitAt(a, i) = b[i]
                             /\ n < Len(b) => DigitAt(a, n + 1) # b[n + 1]

midpoint[ab \in Seq(Digits) \X Seq(Digits)] ==
    LET a == ab[1]  b == ab[2]
        n == IF b = None THEN 0 ELSE Common(a, b)
        digitA == DigitAt(a, 1)
        digitB == IF b = None THEN Base ELSE b[1]
    IN  IF n > 0
        THEN SubSeq(b, 1, n) \o midpoint[<<SubSeq(a, n + 1, Len(a)), SubSeq(b, n + 1, Len(b))>>]
        ELSE IF digitB - digitA > 1 THEN <<(digitA + digitB + 1) \div 2>>
        ELSE IF Len(b) > 1 THEN <<b[1]>>
        ELSE <<digitA>> \o midpoint[<<SubSeq(a, 2, Len(a)), None>>]

\* Mutant: the next integer is taken although it may be the upper bound or above.
AlwaysNext(i, b) == TRUE

Fits(i, b) == Before(i, b)

\* The lower bound is open: the integer of b if b has a fraction, else the one below.
KeyBelow(b) ==
    LET ib == getIntPart(b)
    IN  IF ib = smallestInt THEN ib \o midpoint[<<None, Fraction(b)>>]
        ELSE IF Before(ib, b) THEN ib ELSE decrementInt(ib)

\* The upper bound is open: the next integer, or a longer fraction after the last.
KeyAbove(a) ==
    LET i == incrementInt(getIntPart(a))
    IN  IF i = None THEN getIntPart(a) \o midpoint[<<Fraction(a), None>>] ELSE i

\* KeyBetween for two bounds.
KeyInside(a, b) ==
    LET ia == getIntPart(a)  i == incrementInt(ia)
    IN  IF ia = getIntPart(b) THEN ia \o midpoint[<<Fraction(a), Fraction(b)>>]
        ELSE IF i = None THEN Failed
        ELSE IF Fits(i, b) THEN i ELSE ia \o midpoint[<<Fraction(a), None>>]

KeyBetween(a, b) ==
    IF \/ a # None /\ ~validateOrderKey(a)
       \/ b # None /\ ~validateOrderKey(b)
       \/ a # None /\ b # None /\ ~Before(a, b) THEN Failed
    ELSE CASE a = None /\ b = None -> <<0, 0>>
           [] a = None /\ b # None -> KeyBelow(b)
           [] a # None /\ b = None -> KeyAbove(a)
           [] OTHER -> KeyInside(a, b)

\* By the number of keys, which is never more than there are channels.
NKeysBetween[n \in 0..MaxKeys] ==
    [ab \in Strings \X Strings |->
        LET a == ab[1]  b == ab[2]  c == KeyBetween(a, b)
        IN  IF n = 0 THEN <<>>
            ELSE IF c = Failed THEN <<Failed>>
            ELSE IF n = 1 THEN <<c>>
            ELSE IF b = None THEN <<c>> \o NKeysBetween[n - 1][<<c, b>>]
            ELSE IF a = None THEN NKeysBetween[n - 1][<<a, c>>] \o <<c>>
            ELSE NKeysBetween[n \div 2][<<a, c>>] \o <<c>> \o NKeysBetween[n - (n \div 2) - 1][<<c, b>>]]

-----------------------------------------------------------------------------
VARIABLES
    order,       \* the keys of the user's channels, in the order the user arranged
    moves

sortVars == <<order, moves>>

\* No channel yet, or one with a key its client gave.
Given == {k \in UNION {[1..n -> (-Heads)..(Base - 1)] : n \in 2..StartLength} :
             /\ k[1] < Heads /\ \A i \in 2..Len(k) : k[i] \in Digits
             /\ validateOrderKey(k)}

SortInit == order \in {<<>>} \cup {<<k>> : k \in Given} /\ moves = 0

KeyAt(i) == IF i \in DOMAIN order THEN order[i] ELSE None

\* CreateApplication without a key and TransferApplicationOwnership append
\* (i = Len(order)); moving a channel asks for a key between its neighbours.
PlaceChannel(i) ==
    /\ Len(order) < MaxKeys /\ moves < MaxMoves
    /\ LET k == KeyBetween(KeyAt(i), KeyAt(i + 1))
       IN  k # Failed /\ order' = InsertAt(order, i + 1, k)
    /\ moves' = moves + 1

\* Several keys at once.
PlaceChannels(i, n) ==
    /\ Len(order) + n <= MaxKeys /\ moves < MaxMoves
    /\ LET ks == NKeysBetween[n][<<KeyAt(i), KeyAt(i + 1)>>]
       IN  /\ Failed \notin ToSet(ks)
           /\ order' = SubSeq(order, 1, i) \o ks \o SubSeq(order, i + 1, Len(order))
    /\ moves' = moves + 1

DropChannel(i) == order' = RemoveAt(order, i) /\ UNCHANGED moves

SortNext ==
    \/ \E i \in 0..Len(order) : PlaceChannel(i) \/ PlaceChannels(i, 2) \/ PlaceChannels(i, 3)
    \/ \E i \in DOMAIN order : DropChannel(i)

SortSpec == SortInit /\ [][SortNext]_sortVars

\* Channels sorted by key are in the order the user arranged, no two have the
\* same key, every key can be a bound of the next one and there is room for a
\* channel between any two. The one exception is the smallest integer, which is
\* handed out and then refused as a bound
\* (fracdex/fracdex.go KeyBetween, midpoint, decrementInt).
OrderKept ==
    /\ \A i \in 1..(Len(order) - 1) : Before(order[i], order[i + 1])
    /\ \A i \in DOMAIN order : validateOrderKey(order[i]) \/ order[i] = smallestInt
    /\ \A i \in 0..Len(order) :
          smallestInt \notin {KeyAt(i), KeyAt(i + 1)} => KeyBetween(KeyAt(i), KeyAt(i + 1)) \notin {None, Failed}
=============================================================================
