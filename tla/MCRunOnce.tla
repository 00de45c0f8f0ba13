------------------------------- MODULE MCRunOnce -------------------------------
(* Instances of RunOnce for TLC: a course of 32 hours that goes through all    *)
(* nine gates and then leaves the setup behind, variations of single hours of  *)
(* it, and a falling market.                                                   *)
EXTENDS RunOnce

\* Hours as <<open, high, low, close>>: a fall, a base, a rise, a break of its
\* high and the return to the order block.
Base ==
  << <<200, 250, 195, 200>>, <<200, 202, 150, 152>>, <<152, 153, 100, 102>>, <<102, 103, 60, 62>>,
     <<62, 66, 58, 64>>, <<64, 70, 60, 66>>, <<66, 69, 52, 58>>, <<58, 64, 50, 60>>,
     <<60, 72, 59, 70>>, <<70, 80, 68, 78>>, <<78, 104, 76, 98>>, <<98, 101, 94, 96>>,
     <<96, 102, 72, 78>>, <<78, 82, 70, 80>>, <<80, 88, 76, 86>>, <<86, 95, 82, 92>>,
     <<92, 97, 86, 95>>, <<95, 100, 90, 99>>, <<99, 106, 94, 105>>, <<105, 112, 96, 110>>,
     <<110, 114, 99, 108>>, <<108, 110, 100, 107>>, <<107, 108, 79, 80>>, <<80, 81, 75, 76>>,
     <<76, 83, 74, 78>>, <<78, 79, 73, 74>>, <<74, 75, 68, 72>>, <<72, 87, 71, 86>>,
     <<86, 89, 80, 88>>, <<88, 90, 76, 85>>, <<85, 122, 84, 120>>, <<120, 126, 101, 124>> >>

\* A price of one hour is moved; the hour stays a well formed bar.
Moved(hours, hour, field, by) ==
  LET bar == [hours[hour] EXCEPT ![field] = @ + by]
      prices == {bar[k] : k \in 1..4}
  IN [hours EXCEPT ![hour] = [bar EXCEPT ![2] = Max(prices), ![3] = Min(prices)]]

Falling == [i \in DOMAIN Base |-> LET b == Base[Len(Base) + 1 - i] IN <<b[4], b[2], b[3], b[1]>>]

\* Two minutes an hour: the first goes to the low, the second to the high.
Course(hours) ==
  [m \in 0..(2 * Len(hours) - 1) |->
     LET b == hours[m \div 2 + 1]
         middle == (b[1] + b[4]) \div 2
     IN IF m % 2 = 0
        THEN [open |-> b[1], high |-> Max({b[1], middle}), low |-> b[3], close |-> middle]
        ELSE [open |-> middle, high |-> b[2], low |-> Min({middle, b[4]}), close |-> b[4]]]

\* The hours from the break on, and those the liquidity and the swings come from.
VariedHours == {12, 15, 16} \cup 20..30

Moves == VariedHours \X {<<2, 12>>, <<3, -12>>, <<4, -12>>, <<4, 12>>}

MCMarket ==
  [name \in ({"base", "falling"} \X {0}) \cup ({"moved"} \X Moves) |->
     Course(CASE name[1] = "base" -> Base
              [] name[1] = "falling" -> Falling
              [] name[1] = "moved" -> Moved(Base, name[2][1], name[2][2][1], name[2][2][2]))]
================================================================================
