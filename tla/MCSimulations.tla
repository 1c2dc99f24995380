--------------------------- MODULE MCSimulations ----------------------------
(***************************************************************************)
(* The two simulations of concurrency/, on small inputs.  They are         *)
(* programs of their own: a behaviour is one of the one or of the other.   *)
(***************************************************************************)
EXTENDS Parlour, TLC

CONSTANT t1

VARIABLES
  program,            \* "parlour" or "cafe"
  customers, clock, cafe_mutex, served, wasted_coffees, coffee_done, left_flags, baristas, finish_times, st, told

cafe == <<customers, clock, cafe_mutex, served, wasted_coffees, coffee_done, left_flags, baristas, finish_times,
          st, told>>

-----------------------------------------------------------------------------
MCMenu == [vanilla |-> 1, fudge |-> 2]

Ice(f, ts) == [flavor |-> f, toppings |-> ts]

\* Two customers on one topping; the machines work for different hours.
Day(k, s1, e1, s2, e2, orders, q) ==
  [K |-> k, start_time |-> <<s1, s2>>, end_time |-> <<e1, e2>>,
   arrival_time |-> [c \in DOMAIN orders |-> 0], order |-> orders, quantity |-> t1 :> q]

Plain == Ice("vanilla", {})
Topped == Ice("vanilla", {t1})
Fudge == Ice("fudge", {})
Wrong == Ice("mango", {})

Shortage == Day(2, 0, 4, 0, 4, << <<Topped, Topped>>, <<Topped>> >>, 1)

\* Shortage: the second ice cream may find the topping used up at each of the three looks.  Then
\* machines that stop soon; customers and capacity 0; a flavour not on the menu.
MCInputs ==
  { Shortage,
    Day(2, 0, 2, 0, 4, << <<Fudge, Plain, Plain>> >>, 1),
    Day(0, 0, 4, 1, 1, << <<Plain>>, <<Plain>> >>, 1),
    Day(2, 0, 4, 0, 4, << <<Wrong, Plain>>, <<Plain>> >>, 1) }

Guest(x, a, p) == [coffee |-> x, arrival_time |-> a, patience_time |-> p]

Rush == <<Guest("mocha", 0, 2), Guest("espresso", 0, 1), Guest("espresso", 1, 1)>>

\* More customers than baristas, some in a hurry, and a slow coffee; an order that is not on the
\* menu, with others behind it.
CafeInputs ==
  { Rush,
    <<Guest("espresso", 0, 2), Guest("tea", 0, 1), Guest("espresso", 0, 2)>> }

Cafe == INSTANCE Cafe WITH
  N <- 3, B <- 2, coffee_types <- [espresso |-> 1, mocha |-> 2], Inputs <- CafeInputs, MaxTime <- 4,
  now <- clock, mutex <- cafe_mutex, served_customers <- served, cust_done <- coffee_done, sem <- baristas

-----------------------------------------------------------------------------
\* The program that does not run has one of its inputs and stays where it is.
MCInit ==
  /\ Init /\ Cafe!Init
  /\ \/ program = "parlour" /\ customers = Rush
     \/ program = "cafe" /\ in = Shortage

InCafe(A) == program = "cafe" /\ A /\ UNCHANGED <<vars, program>>

MCNext ==
  \/ program = "parlour" /\ Next /\ UNCHANGED <<cafe, program>>
  \/ InCafe(Cafe!Next)

\* The fairness of Cafe!LiveSpec, for the cafe.
MCSpec ==
  /\ MCInit /\ [][MCNext]_<<vars, cafe, program>>
  /\ WF_cafe(InCafe(Cafe!Tick))
  /\ \A t \in 1..3 : WF_cafe(InCafe(Cafe!Serve(t)))

\* In the cafe no barista is lost or shared, a customer leaves in one way, wasted coffees are counted once,
\* and a barista rests a second (serve_customer of 1.c): see Cafe.
CafeSafe == Cafe!CafeSafe

\* In the cafe every customer is served or leaves, as 1.c's threads end: see Cafe.
CafeCloses == program = "cafe" => Cafe!CafeCloses
=============================================================================
