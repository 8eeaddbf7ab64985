---------------------------- MODULE SalesWindow ----------------------------
(***************************************************************************)
(* The date arithmetic of the Shopify sales sync: packages/shopify/src/    *)
(* sales.ts.  A sale belongs to a trading day of the TENANT's time zone,   *)
(* a pull starts at a UTC midnight, and a day is always rebuilt whole; so  *)
(* the pull of changed orders may have to be completed by sale date.       *)
(*                                                                         *)
(* Instants are integers, days are integers (the day d of UTC starts at    *)
(* DayLength * d).  dayKeyRanges merges the days to fetch into runs of     *)
(* consecutive days; the union of the padded windows is the same one day   *)
(* at a time, which is how it is written here.                             *)
(***************************************************************************)
EXTENDS Integers

CONSTANTS
    DayLength,   \* instants in a day
    Zone,        \* the tenant's offset from UTC
    Pad          \* PAD_MS: wider than any time zone offset

ASSUME CalendarAssumption ==
    /\ DayLength \in Nat \ {0}
    /\ Zone \in Int
    /\ Pad \in Nat
    /\ -Pad <= Zone /\ Zone <= Pad

\* tenantDayKey
TenantDay(t) == (t + Zone) \div DayLength

UtcMidnight(t) == DayLength * (t \div DayLength)

\* computeWindowStart, for a stored cursor and for a first run.
WindowFromCursor(cursor, overlap) == UtcMidnight(cursor - overlap)
WindowFromNow(now, lookback) == UtcMidnight(now - lookback)

AffectedDays(changed, soldAt) == {TenantDay(soldAt[o]) : o \in changed}

\* A name with an underscore is a faulty variant of the definition after it.
DayNeedsRefetch_Never(d, since) == FALSE
DayNeedsRefetch_Unpadded(d, since) == DayLength * d < since
DayNeedsRefetch(d, since) == DayLength * d - Pad < since

\* processedWindowFor, one day at a time: from its start to its end, padded.
SoldAround(t, d) == DayLength * d - Pad <= t /\ t < DayLength * (d + 1) + Pad

\* collectDayOrders: the days the changed orders fall on, and every order sold
\* on them.  "placed" is what the store can return when asked by sale date.
CollectedOrders(changed, placed, soldAt, since) ==
    LET days == AffectedDays(changed, soldAt)
        refetched == {o \in placed : \E d \in days :
                        DayNeedsRefetch(d, since) /\ SoldAround(soldAt[o], d)}
    IN {o \in changed \cup refetched : TenantDay(soldAt[o]) \in days}
=============================================================================
