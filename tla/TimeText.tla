------------------------------ MODULE TimeText ------------------------------
(***************************************************************************)
(* How the database stores instants (internal/repository/conv.go), and     *)
(* what that makes of the time-travel queries: a column holds the text     *)
(* time.RFC3339Nano writes, and SQLite compares texts.  The clock of       *)
(* EntryStore counts the smallest fractions of a second here.              *)
(***************************************************************************)
EXTENDS EntryStore, Sequences

CONSTANTS
  Base,   \* digits are 0 .. Base - 1; ten in the code
  Width   \* digits a fraction has at most; nine in the code

Second == Base ^ Width

-----------------------------------------------------------------------------
(* formatRFC.  The part up to the seconds has a fixed width and compares   *)
(* like its number.  A fraction follows as a dot and its digits without    *)
(* trailing zeros, unless it is zero; then comes the letter Z.             *)

(* Characters by their rank: the dot, the digits, the letter Z.            *)
Dot == 0
Digit(d) == d + 1
Zed == Base + 1

(* The k-th digit of fraction f.                                           *)
DigitAt(f, k) == (f \div Base ^ (Width - k)) % Base

SignificantDigits(f) ==
  {k \in 1 .. Width : \E j \in k .. Width : DigitAt(f, j) # 0}

Fraction(f) == [k \in 1 .. Cardinality(SignificantDigits(f)) |-> Digit(DigitAt(f, k))]

AfterSeconds(f) == IF f = 0 THEN <<Zed>> ELSE <<Dot>> \o Fraction(f) \o <<Zed>>

Text(t) == [seconds |-> t \div Second, tail |-> AfterSeconds(t % Second)]

(* The comparison of two texts, byte by byte.                              *)
TailLess(a, b) ==
  \E k \in DOMAIN a \cap DOMAIN b :
    a[k] < b[k] /\ \A j \in 1 .. k - 1 : a[j] = b[j]

TextLess(a, b) ==
  \/ a.seconds < b.seconds
  \/ a.seconds = b.seconds /\ TailLess(a.tail, b.tail)

TextLeq(a, b) == a = b \/ TextLess(a, b)

(* What the k-th digit of a fraction counts, how many digits are written,  *)
(* and what the last of them counts.                                       *)
Unit(k) == Base ^ (Width - k)
Digits(f) == Cardinality(SignificantDigits(f))
Precision(t) == Digits(t % Second)
LastUnit(t) == Unit(Precision(t))

(* s is what remains of the later t when digits are cut off.  Its text has *)
(* the letter Z where t has more to come, and is the larger one.           *)
CutOff(s, t) == s < t /\ t < s + LastUnit(s)

-----------------------------------------------------------------------------
(* The time-travel queries as SQLite evaluates them.                       *)

(* ListEntriesAt, if the clock read 0 at the instant epoch.                *)
StoredEntriesAt(t, epoch) ==
  LET Stored(s) == Text(epoch + s)
  IN  {i \in DOMAIN entry :
         /\ TextLeq(Stored(entry[i].ingested), Stored(t))
         /\ TextLeq(Stored(entry[i].occurred), Stored(t))
         /\ \/ entry[i].next = Null
            \/ TextLess(Stored(t), Stored(entry[entry[i].next].ingested))}

StoredEdgesAt(t) ==
  {e \in DOMAIN edge :
     /\ TextLeq(Text(edge[e].ingested), Text(t))
     /\ edge[e].detached = Null \/ TextLess(Text(t), Text(edge[e].detached))}

(* queries_temporal.go:197: detached_at is RFC3339Nano like asOf, so the   *)
(* string compare is chronological.                                        *)
DetachCompareIsChronological ==
  \A e \in DOMAIN edge, t \in Times :
    edge[e].detached # Null =>
      (TextLess(Text(t), Text(edge[e].detached)) <=> t < edge[e].detached)

=============================================================================
