---------------------------- MODULE RateLimiter -----------------------------
(***************************************************************************)
(* The two limiters of security/rateLimiter.js. Each counts, for every     *)
(* client, the requests of a window that begins with the first of them; the*)
(* counting itself is express-rate-limit's, as rateLimiter.js configures it*)
(* (max, windowMs).                                                        *)
(***************************************************************************)
EXTENDS Integers, FiniteSets

CONSTANTS
    Clients,    \* told apart by their IP address
    Limit,      \* of each limiter: how many requests a window lets pass
    WindowMs    \* and how long the window is

\* apiLimiter for all of REST, authLimiter for /auth.
Limiters == {"api", "auth"}

ASSUME LimitAssumption == Limit \in [Limiters -> Nat] /\ WindowMs \in [Limiters -> Nat \ {0}]

VARIABLE window   \* of each limiter and client: [hits, reset]

Window == [hits: Nat, reset: Int]

WindowTypeOK == window \in [Limiters -> [Clients -> Window]]

\* A window that has ended already: the next request begins another.
NoWindow(t) == [hits |-> 0, reset |-> t]

WindowInit(t) == window = [l \in Limiters |-> [c \in Clients |-> NoWindow(t)]]

\* Mutants of Counted: what remains is counted; the limiter is created anew
\* for each request.
CountedDown(l, c, t) ==
    IF window[l][c].reset <= t
    THEN [hits |-> Limit[l] - 1, reset |-> t + WindowMs[l]]
    ELSE [window[l][c] EXCEPT !.hits = @ - 1]

CountedAfresh(l, c, t) == [hits |-> 1, reset |-> t + WindowMs[l]]

\* Every request counts, also one that is refused; none moves the window.
Counted(l, c, t) ==
    IF window[l][c].reset <= t
    THEN [hits |-> 1, reset |-> t + WindowMs[l]]
    ELSE [window[l][c] EXCEPT !.hits = @ + 1]

\* Mutant of Hit: all clients are one, as behind a proxy that is not trusted.
HitTogether(l, c, t) ==
    window' = [window EXCEPT ![l] = [d \in Clients |-> Counted(l, d, t)]]

Hit(l, c, t) == window' = [window EXCEPT ![l][c] = Counted(l, c, t)]

Passes(l, c, t) == Counted(l, c, t).hits <= Limit[l]
=============================================================================
