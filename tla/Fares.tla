------------------------------- MODULE Fares -------------------------------
(***************************************************************************)
(* What a ride costs: SurgeEngine.Calculate of internal/ride/surge.go, the *)
(* counts RequestRide gives it, and EstimateFare and EstimateETA of        *)
(* pkg/geo.  Multipliers are in tenths, distances in steps of 200 m, fares *)
(* in cents and times in seconds: fares are whole cents then, and the      *)
(* rounding of other distances is left out.                                *)
(***************************************************************************)
EXTENDS Naturals, FiniteSetsExt

BaseThreshold == 5
MinMultiplier == 10
MaxMultiplier == 30

\* The ratio of requests to drivers, cut off (not rounded) after one digit and
\* kept between the two multipliers; few requests count only against no driver.
Calculate(activeRequests, availableDrivers) ==
    CASE availableDrivers = 0 -> IF activeRequests > 0 THEN MaxMultiplier ELSE MinMultiplier
      [] availableDrivers > 0 /\ activeRequests <= BaseThreshold -> MinMultiplier
      [] OTHER -> Max({MinMultiplier,
                       Min({MaxMultiplier, (10 * activeRequests) \div availableDrivers})})

\* A count as RequestRide gets it: an error is dropped and leaves zero.
Count(n, read) == IF read THEN n ELSE 0

\* Drivers are counted in the geo set, which finds no more than so many.
MaxFound == 20

ActiveDriverCount(n) == Min({n, MaxFound})

\* The multiplier of a ride requested while there are so many requests and
\* drivers, when the counts can be read, or not.
Quote(requests, drivers, requestsRead, driversRead) ==
    Calculate(Count(requests, requestsRead),
              Count(ActiveDriverCount(drivers), driversRead))

\* 2.50 and 1.00, and 1.50 a kilometre times the multiplier.
EstimateFare(distance, surge) == 350 + 3 * distance * surge

\* 30 % more than the distance, at 35 km/h.
EstimateETA(distance) == (936 * distance) \div 35

-----------------------------------------------------------------------------
(* Claims, for counts and distances up to the given bounds *)

\* The multiplier is the largest tenth that is not above the ratio, between
\* 1.0 and 3.0, whenever there are drivers and enough requests.
SurgeIsRatio(n) ==
    \A r \in BaseThreshold + 1..n, d \in 1..n :
        LET fits == {m \in MinMultiplier..MaxMultiplier : m * d <= 10 * r}
        IN  Calculate(r, d) = IF fits = {} THEN MinMultiplier ELSE Max(fits)

\* More requests never make a ride cheaper, more drivers never dearer, also
\* across the threshold and from no driver to the first.
SurgeMonotone(n) ==
    \A r, d \in 0..n :
        /\ Calculate(r, d) <= Calculate(r + 1, d)
        /\ Calculate(r, d + 1) <= Calculate(r, d)

\* Where errors and the limit of the geo set lead: drivers that cannot be
\* counted, or too many to be found, make the ride dearer, requests that cannot
\* be counted make it cost the minimum, and nothing leads out of the range.
ErrorsPriced(n) ==
    \A r, d \in 0..n :
        /\ Quote(r, d, TRUE, FALSE) >= Quote(r, d, TRUE, TRUE)
        /\ Quote(r, d, TRUE, TRUE) >= Calculate(r, d)
        /\ \A read \in BOOLEAN : Quote(r, d, FALSE, read) = MinMultiplier
        /\ \A both \in BOOLEAN \X BOOLEAN :
             Quote(r, d, both[1], both[2]) \in MinMultiplier..MaxMultiplier

\* A longer ride costs more and takes no less time, and no ride costs less than
\* the two flat charges or more than three times its distance and these.
FareMonotone(n) ==
    \A x \in 0..n, s \in MinMultiplier..MaxMultiplier :
        /\ EstimateFare(x, s) < EstimateFare(x + 1, s)
        /\ EstimateFare(x, s) <= EstimateFare(x, s + 1)
        /\ EstimateFare(x, s) \in 350..350 + 90 * x
        /\ EstimateETA(x) <= EstimateETA(x + 1)

=============================================================================
