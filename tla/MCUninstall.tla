----------------------------- MODULE MCUninstall -----------------------------
(* Small instances of Uninstall.                                           *)
EXTENDS Uninstall, TLC

CONSTANTS p1, p2, s1, s2, s3, here1, here2

Value(v) == <<"value", v>>
Theme == <<Name("theme"), Value("dark")>>

(* An empty object without and with blanks, members on lines of their own, *)
(* an empty mcp object behind a comma, and one with another server in it.  *)
UserFiles ==
  {<<Open, Close>>,
   <<Open, Blank, Close>>,
   <<Open, Blank>> \o Theme \o <<Blank, Close, Blank>>,
   <<Open>> \o Theme \o <<Comma, Blank, Name("mcp"), Open, Close, Close>>,
   <<Open, Blank, Name("mcp"), Open, Blank, Name("other"), Value("server"), Blank, Close, Comma,
     Blank>> \o Theme \o <<Blank, Close>>}

Serves == (s1 :> p1) @@ (s2 :> p1) @@ (s3 :> p2)

(* The two starts of one project are alike, and so are the two commands.   *)
Alike == Permutations({s1, s2}) \cup Permutations({here1, here2})

(* BOUND: the two halves share nothing but the command, so one of them     *)
(* stays as it was in the beginning while the other one moves.  The        *)
(* projects move from the moment the first question is on the screen, for  *)
(* one uninstall, whose user keeps the library.                            *)
HarnessesAtRest ==
  /\ entry = [h \in Cli |-> None] /\ config = None /\ backup = None
  /\ events = 0 /\ onPath = Harness /\ job = Idle /\ library
HomeAtRest ==
  /\ dir = [p \in Project |-> Absent] /\ offer.at = "idle" /\ library
  /\ \A s \in Start : At(s, "off")
OneHalfAtATime == HarnessesAtRest \/ HomeAtRest

(* BOUND: two of the three starts are made.                                *)
TwoStarts == \E s \in Start : At(s, "off")
=============================================================================
