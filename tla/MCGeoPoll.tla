----------------------------- MODULE MCGeoPoll -----------------------------
(* A small instance of GeoPoll for TLC: engine 1 answers chat, with two     *)
(* tasks; engine 2 is a billed SERP engine, with one.                       *)
EXTENDS GeoPoll, TLC

CONSTANTS cron1, cron2, ann, bob, r1, r2

AllTasks == {<<1, 1>>, <<1, 2>>, <<2, 1>>}
ChatTasks == {<<1, 1>>, <<1, 2>>}
SerpAlone == {AllTasks \ ChatTasks}
EachEngine == {ChatTasks, AllTasks \ ChatTasks}
Slots == Permutations(Request)
============================================================================
