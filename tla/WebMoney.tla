------------------------------- MODULE WebMoney -------------------------------
(***************************************************************************)
(* How the browser writes an amount (web/src/money.ts, PnlTable.tsx): an   *)
(* integer of minor units and a currency code, to a sign, groups of three  *)
(* digits and as many decimal places as the currency has.  The marks of    *)
(* the groups and of the places are the locale's.                          *)
(***************************************************************************)
EXTENDS Integers, Sequences
LOCAL INSTANCE SequencesExt

NO_DATA == [negative |-> FALSE, groups |-> <<>>, fraction |-> 0, places |-> -1]

\* The codes of the table that do not have two places, and some that do.
EXPONENT(code) ==
  CASE code \in {"BIF", "CLP", "DJF", "GNF", "ISK", "JPY", "KMF", "KRW", "PYG", "RWF", "UGX", "UYI",
                 "VND", "VUV", "XAF", "XAG", "XAU", "XBA", "XBB", "XBC", "XBD", "XDR", "XOF",
                 "XPD", "XPF", "XPT", "XSU", "XUA"} -> 0
    [] code \in {"AMD", "EUR", "GBP", "RUB", "USD", "ZWL"} -> 2
    [] code \in {"BHD", "IQD", "JOD", "KWD", "LYD", "OMR", "TND"} -> 3
    [] code \in {"CLF", "UYW"} -> 4
    [] OTHER -> -1

\* What a table has no row for is not guessed; case is not minded.
exponentOf(code) == EXPONENT(IF code = "eur" THEN "EUR" ELSE code)
UnknownCurrency(code) == exponentOf(code) = -1

\* The whole part in groups of three, the least one last.
Grouped(whole) ==
  LET parts[n \in 0..4] == IF n = 0 THEN <<>>
        ELSE IF whole \div 1000^(n - 1) = 0 /\ n > 1 THEN parts[n - 1]
        ELSE <<(whole \div 1000^(n - 1)) % 1000>> \o parts[n - 1]
  IN  parts[4]

formatMinorUnits(minor, exponent) ==
  LET digits == IF minor < 0 THEN -minor ELSE minor
  IN  [negative |-> minor < 0, groups |-> Grouped(digits \div 10^exponent),
       fraction |-> digits % 10^exponent, places |-> exponent]

fmt(minor, code) == IF UnknownCurrency(code) THEN NO_DATA ELSE formatMinorUnits(minor, exponentOf(code))

sumMinorUnits(values) == FoldLeft(LAMBDA sum, v : sum + v, 0, values)

\* A share of a base in tenths of a percent, cut and not rounded: <<>> of nothing.
percentOf(amount, base) ==
  IF base = 0 THEN <<>>
  ELSE LET abs(v) == IF v < 0 THEN -v ELSE v
           tenths == (abs(amount) * 1000) \div abs(base)
       IN  <<[negative |-> (amount < 0) # (base < 0) /\ tenths > 0, tenths |-> tenths]>>

(* Whatever amount and currency: what is written reads back to the amount, *)
(* with the currency's own number of places and no leading group of        *)
(* nought, and two amounts that differ never read alike; an unknown code   *)
(* writes no figure at all; and the shares of the parts of a whole fall    *)
(* short of a hundred percent by less than a tenth for every part.         *)
(* money.ts:107-121, 148-157, PnlTable.tsx:50-54.                          *)
MoneyReads(d) ==
  LET shown == fmt(d.minor, d.code)
      Read(f) == LET abs == FoldLeft(LAMBDA n, g : n * 1000 + g, 0, f.groups) * 10^f.places + f.fraction
                 IN  IF f.negative THEN -abs ELSE abs
      whole == sumMinorUnits(d.parts)
      share(v) == LET p == percentOf(v, whole)[1] IN IF p.negative THEN -p.tenths ELSE p.tenths
  IN
  /\ shown = NO_DATA <=> d.code \notin d.known
  /\ shown # NO_DATA =>
       /\ Read(shown) = d.minor
       /\ Len(shown.groups) > 1 => Head(shown.groups) # 0
       /\ \A i \in 2..Len(shown.groups) : shown.groups[i] \in 0..999
       /\ \A near \in (d.minor - 1)..(d.minor + 1) : near # d.minor => fmt(near, d.code) # shown
  /\ whole = 0 <=> percentOf(1, whole) = <<>>
  /\ whole > 0 /\ (\A i \in DOMAIN d.parts : d.parts[i] >= 0) =>
       LET shares == sumMinorUnits([i \in DOMAIN d.parts |-> share(d.parts[i])])
       IN  shares <= 1000 /\ shares > 1000 - Len(d.parts)
=============================================================================
