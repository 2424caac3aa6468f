----------------------------- MODULE MCAssurance -----------------------------
(* A small instance of the assurance package for TLC: the evidence of one   *)
(* problem with its demo, and the soaks of two machines, one with git and   *)
(* Moreau and one without either, whose tree was unpacked from an archive.  *)
(* The commands share no file: either is run, and the other has not begun.  *)
EXTENDS FlagshipDemo, PlatformSoak

AssuranceVars == <<vars, soakVars>>

AssuranceInit == Init /\ SoakInit

NoEvidence == /\ stage = "none" /\ origin = "none"
              /\ file = {} /\ bundle = {} /\ projection = {} /\ promoted = {}
NoSoak == runs = <<>> /\ changes = 0 /\ aggregate = {}

AssuranceNext == \/ NoSoak /\ Next /\ UNCHANGED soakVars
                 \/ NoEvidence /\ SoakNext /\ UNCHANGED vars

AssuranceSpec == AssuranceInit /\ [][AssuranceNext]_AssuranceVars
-----------------------------------------------------------------------------
Solve(a, r, c, b) == [action |-> a, residual |-> r, canonical |-> c, backend |-> b]

\* A good and an equal solve of two backends, and the ways a solve goes wrong.
MCSolves == {Solve(1, "small", "solved", "clarabel"), Solve(1, "small", "solved", "scs"),
             Solve(2, "large", "solved", "scs"), Solve(1, "none", "solved", "clarabel"),
             Solve(2, "nan", "solved", "clarabel"), Solve(2, "small", "failed", "clarabel"),
             Solve(0, "small", "solved", "scs")}

Arg(m, n, f, l, s, stable) ==
  [metric |-> m, norm |-> n, fd |-> f, live |-> l, synthetic |-> s, stable |-> stable]

\* Live with and without a comparison, across an active set that is stable,
\* that is not, of which nothing is said; passed in by hand; with a comparison
\* that failed or is not a number; declared synthetic.
MCArgs == {Arg("finite", "finite", "absent", TRUE, "absent", "absent"),
           Arg("finite", "finite", "yes", TRUE, "no", "yes"),
           Arg("finite", "finite", "yes", TRUE, "no", "no"),
           Arg("finite", "finite", "yes", FALSE, "no", "absent"),
           Arg("finite", "finite", "no", TRUE, "no", "yes"),
           Arg("absent", "finite", "no", TRUE, "no", "yes"),
           Arg("finite", "nan", "yes", TRUE, "no", "yes"),
           Arg("nan", "finite", "absent", TRUE, "yes", "absent")}

OldSensitivity == [metric |-> "finite", norm |-> "finite", fd |-> "absent", stable |-> "absent",
                   synthetic |-> "absent", forward |-> <<"old">>]
OldShadow(k) == [backends |-> k, verified |-> "absent", copied |-> "absent",
                 problem |-> <<"old">>]

\* Dicts of v0, with any level, as the fixtures of the tests have them, and with
\* a flag that says feasible of a large residual: the checks take it as it is.
MCOldDicts ==
  {[schema |-> "v0", action |-> 1, problem |-> <<>>, forward |-> <<>>,
    status |-> "absent", canonical |-> "solved",
    prim |-> [residual |-> r, feasible |-> f, present |-> "absent"],
    ver |-> [residual |-> r, feasible |-> f],
    sens |-> s, shadow |-> h, level |-> l, manifest |-> "absent",
    promotion |-> p, reasons |-> {}, source |-> "none"] :
     r \in {"small", "large"}, f \in BOOLEAN, l \in 0..4, p \in BOOLEAN, s \in Optional({OldSensitivity}),
     h \in Optional({OldShadow("one"), OldShadow("two")})}
-----------------------------------------------------------------------------
\* The third revision changes the corpus, the second only the code.
MCCorpusOf == [r \in Revisions |-> IF r = 3 THEN 2 ELSE 1]

Soak(kind, role, passed, variant) ==
  [kind |-> kind, role |-> role, passed |-> passed, variant |-> variant]

MCSoaks == {Soak("real", "linux_public", TRUE, FALSE), Soak("real", "linux_public", FALSE, FALSE),
            Soak("real", "windows_public", TRUE, FALSE), Soak("real", "windows_public", TRUE, TRUE),
            Soak("real", "linux_wsl_moreau_cpu", TRUE, FALSE),
            Soak("synthetic", "linux_wsl_moreau_cpu", TRUE, FALSE)}

MCRequests == {[expected |-> {}, required |-> {}], [expected |-> {}, required |-> {"public"}],
               [expected |-> {1}, required |-> {"moreau"}]}
=============================================================================
