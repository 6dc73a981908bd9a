------------------------------- MODULE Campaign -------------------------------
(***************************************************************************)
(* The benchmark program: main of gbench/cli.py.  It takes its models one  *)
(* by one, each in its formats, through the pillars asked for; the pillars *)
(* measured per campaign are repeated for every --campaign.  All share one *)
(* configuration object, which the campaigns overwrite in turn.  A runner  *)
(* that raises takes its model out; the rows that were collected and the   *)
(* models that failed are reduced to the exit code.                        *)
(*                                                                         *)
(* The sweep of the suites is EvalSweep and the Golden Set is GoldenSet,   *)
(* each with the passes, or the models, of this program.                   *)
(***************************************************************************)
EXTENDS EvalSweep, GoldenSet, Sequences

CONSTANTS
  Orders,     \* the values of --campaign considered
  Plans,      \* the sets of pillars considered
  Visual      \* the models that take images

(* input and output lengths: --campaign, or the preset without one         *)
Geometry == [preset        |-> <<128, 512>>,
             agentic       |-> <<8000, 400>>,
             prefill_heavy |-> <<8192, 128>>,
             decode_heavy  |-> <<128, 2048>>,
             mixed         |-> <<4096, 1024>>,
             long_decode   |-> <<8192, 8192>>]

CampaignNames == (DOMAIN Geometry \ {"preset"}) \cup {"chat_like"}

Pillars == <<"serving", "throughput", "serving_mm", "throughput_mm", "stress",
             "stress_mm", "quality", "golden", "evals">>
PerCampaign  == {"serving", "throughput", "serving_mm", "throughput_mm"}
Multimodal   == {"serving_mm", "throughput_mm", "stress_mm"}
TextPillars  == {"serving", "throughput", "stress"}
Measurements == PerCampaign \cup {"stress", "stress_mm", "quality"}

(* The flags ask for the stress test alone or together with the serving    *)
(* benchmarks of its kind.                                                 *)
Legal(p) ==
  /\ "stress"    \in p /\ p \cap PerCampaign # {} => "serving"    \in p
  /\ "stress_mm" \in p /\ p \cap PerCampaign # {} => "serving_mm" \in p

ASSUME CampaignConstants ==
  /\ Orders \subseteq Seq(CampaignNames) \ {<<>>}
  /\ N = M
  /\ Plans \subseteq {p \in SUBSET {Pillars[i] : i \in 1..Len(Pillars)} : Legal(p)}
  /\ Visual \subseteq Models

VARIABLES
  plan,          \* the pillars asked for
  order,         \* --campaign: its names in the order given
  groups,        \* the model of each pass; a model has a pass for each format
  conf,          \* config: campaign, lengths, window
  slo,           \* the campaign whose latency objective the stress runner has
  pass, pillar, turn,  \* where the loops are: pass, pillar, campaign
  begun,         \* the runner of this cell has been called
  rows,          \* all_results
  failedModels,  \* failed_models
  exit           \* the code main returned

loop == <<pass, pillar, turn>>
args == <<plan, order, groups, slo>>
campaignVars == <<plan, order, groups, conf, slo, pass, pillar, turn, begun,
                  rows, failedModels, exit>>
all == <<vars, goldenVars, campaignVars>>

-----------------------------------------------------------------------------
(* apply_campaign_to_config                                                *)

CampaignCtx(c, lengths) ==
  LET need == (3 * (lengths[1] + lengths[2])) \div 2 + 256
      full == ((need + 255) \div 256) * 256
  IN  IF c = "chat_like" \/ full < 4096 THEN 4096 ELSE full

(* Seeded fault: the window is not sized anew.                             *)
AppliedKeepWindow(c, old) ==
  [campaign |-> c,
   lengths  |-> IF c = "chat_like" THEN old.lengths ELSE Geometry[c],
   window   |-> old.window]

(* chat-like only selects a dataset: the lengths stay what they were.      *)
Applied(c, old) ==
  LET lengths == IF c = "chat_like" THEN old.lengths ELSE Geometry[c]
  IN  [campaign |-> c, lengths |-> lengths, window |-> CampaignCtx(c, lengths)]

Preset == [campaign |-> "chat_like", lengths |-> Geometry.preset, window |-> 4096]

-----------------------------------------------------------------------------
(* The cells of a pass                                                     *)

Runs(m, p) == p \in plan /\ (p \in Multimodal => groups[m] \in Visual)

(* The first pillar from i on that pass m runs; past the last if none.     *)
NextPillar(m, i) ==
  CHOOSE j \in i..(Len(Pillars) + 1) :
    /\ j <= Len(Pillars) => Runs(m, Pillars[j])
    /\ \A k \in i..(j - 1) : ~Runs(m, Pillars[k])

Here == Pillars[pillar]
Working   == exit = "none" /\ pass <= M /\ pillar <= Len(Pillars)

Advance ==
  /\ pass' = pass
  /\ IF Here \in PerCampaign /\ turn < Len(order)
       THEN turn' = turn + 1 /\ pillar' = pillar
       ELSE turn' = 1 /\ pillar' = NextPillar(pass, pillar + 1)

(* A fresh program with nothing to reuse; the endpoint matters to the      *)
(* golden set alone.                                                       *)
CampaignInit ==
  /\ ~flags.resume /\ ~rerun
  /\ plan \in Plans
  /\ "golden" \notin plan => served = {} /\ textOnly = {} /\ override = 0
  /\ order \in Orders
  /\ groups \in {f \in [Models -> Models] :
                   f[1] = 1 /\ \A m \in Models \ {1} : f[m] - f[m - 1] \in {0, 1}}
  /\ conf = Applied(order[1], Preset)
  /\ slo = order[1]
  /\ pass = 1
  /\ pillar = NextPillar(1, 1)
  /\ turn = 1
  /\ begun = FALSE
  /\ rows = {}
  /\ failedModels = {}
  /\ exit = "none"

(* The campaign of a cell is applied before its runner is called.          *)
ConfHere == IF Here \in PerCampaign THEN Applied(order[turn], conf) ELSE conf

(* Threads that an earlier pass abandoned put load on the local server.    *)
Beside(p) == p \notin {"throughput", "throughput_mm"} /\ workers # {}

Row(p, s, b) ==
  [pass |-> pass, pillar |-> p, status |-> s, beside |-> b,
   label   |-> IF p \in PerCampaign THEN order[turn] ELSE "none",
   lengths |-> ConfHere.lengths, window |-> ConfHere.window,
   slo     |-> IF p \in {"stress", "stress_mm"} THEN slo ELSE "none"]

(* A performance runner returns its rows, some of which may be failures.   *)
MeasureCell ==
  /\ Working
  /\ Here \in Measurements
  /\ conf' = ConfHere
  /\ \E s \in {"ok", "failed"} :
       rows' = rows \cup {Row(Here, s, Beside(Here))}
  /\ Advance
  /\ UNCHANGED <<vars, goldenVars, args, begun, failedModels, exit>>

(* Seeded fault: the model is not recorded as failed.                      *)
FailModelSilently ==
  /\ pass' = pass + 1
  /\ turn' = 1
  /\ pillar' = IF pass < M THEN NextPillar(pass + 1, 1) ELSE 1
  /\ UNCHANGED failedModels

(* Seeded fault: only the pillar is given up.                              *)
FailPillarOnly ==
  /\ pass' = pass
  /\ turn' = 1
  /\ pillar' = NextPillar(pass, pillar + 1)
  /\ failedModels' = failedModels \cup {groups[pass]}

(* The model is given up, with the formats it still has to go.             *)
FailModel ==
  LET next == CHOOSE m \in (pass + 1)..(M + 1) :
                /\ m <= M => groups[m] # groups[pass]
                /\ \A k \in (pass + 1)..(m - 1) : groups[k] = groups[pass]
  IN  /\ failedModels' = failedModels \cup {groups[pass]}
      /\ pass' = next
      /\ turn' = 1
      /\ pillar' = IF next <= M THEN NextPillar(next, 1) ELSE 1

(* A server that does not come up, a quality harness that breaks.          *)
CellRaises ==
  /\ Working
  /\ Here \in {"serving", "serving_mm", "quality"}
  /\ conf' = ConfHere
  /\ FailModel
  /\ UNCHANGED <<vars, goldenVars, args, begun, rows, exit>>

CallGolden ==
  /\ Working /\ ~begun
  /\ Here = "golden"
  /\ StartGolden(groups[pass])
  /\ begun' = TRUE
  /\ UNCHANGED <<vars, args, loop, conf, rows, failedModels, exit>>

GoldenReturns ==
  /\ Working /\ begun
  /\ Here = "golden"
  /\ judged = 0
  /\ rows' = rows \cup {Row("golden", verdict[groups[pass]], FALSE)}
  /\ begun' = FALSE
  /\ Advance
  /\ UNCHANGED <<vars, goldenVars, args, conf, failedModels, exit>>

CallEvals ==
  /\ Working /\ ~begun
  /\ Here = "evals"
  /\ StartEvals(pass)
  /\ begun' = TRUE
  /\ UNCHANGED <<goldenVars, args, loop, conf, rows, failedModels, exit>>

EvalsReturn ==
  /\ Working /\ begun
  /\ Here = "evals"
  /\ stage = "idle"
  /\ begun' = FALSE
  /\ IF swept[pass] = "lost"
       THEN FailModel /\ UNCHANGED rows
       ELSE /\ rows' = rows \cup {Row("evals", swept[pass], FALSE)}
            /\ Advance
            /\ UNCHANGED failedModels
  /\ UNCHANGED <<vars, goldenVars, args, conf, exit>>

PassDone ==
  /\ exit = "none" /\ pass <= M
  /\ pillar = Len(Pillars) + 1
  /\ pass' = pass + 1
  /\ turn' = 1
  /\ pillar' = IF pass < M THEN NextPillar(pass + 1, 1) ELSE 1
  /\ UNCHANGED <<vars, goldenVars, args, conf, begun, rows, failedModels, exit>>

-----------------------------------------------------------------------------
(* The exit code                                                           *)

Has(ps, s) == \E r \in rows : r.pillar \in ps /\ r.status = s

(* Seeded fault: the failures of a pillar that does not raise are not      *)
(* looked for.                                                             *)
ExitCodeMasking ==
  IF failedModels # {} THEN "model_failure"
  ELSE IF Has({"golden"}, "error")  THEN "harness_error"
  ELSE IF Has({"golden"}, "failed") THEN "model_failure"
  ELSE "ok"

ExitCode ==
  IF failedModels # {} \/ Has(TextPillars, "failed") THEN "model_failure"
  ELSE IF Has({"golden"}, "error")  THEN "harness_error"
  ELSE IF Has({"golden"}, "failed") THEN "model_failure"
  ELSE "ok"

Return ==
  /\ exit = "none"
  /\ pass = M + 1
  /\ exit' = ExitCode
  /\ MainReturns
  /\ UNCHANGED <<goldenVars, args, loop, conf, begun, rows, failedModels>>

-----------------------------------------------------------------------------
Driver == \/ MeasureCell \/ CellRaises \/ CallGolden \/ GoldenReturns
          \/ CallEvals \/ EvalsReturn \/ PassDone \/ Return

SweepStep  == (Sweep \/ TimeOut \/ Exit \/ StrayEnds) /\ UNCHANGED <<goldenVars, campaignVars>>
GoldenPart == GoldenStep /\ UNCHANGED <<vars, campaignVars>>

CInit == Init /\ GoldenInit /\ CampaignInit
CNext == Driver \/ SweepStep \/ GoldenPart
CSpec == CInit /\ [][CNext]_all

(* The driver runs; what a request or a benchmark waits for has a timeout, *)
(* a suite has one if the operator gave it one.                            *)
CFairSpec ==
  /\ CSpec
  /\ WF_all(Driver)
  /\ WF_all(GoldenPart)
  /\ WF_all((OwnStep \/ Exit) /\ UNCHANGED <<goldenVars, campaignVars>>)
  /\ WF_all(TimeOut /\ UNCHANGED <<goldenVars, campaignVars>>)

-----------------------------------------------------------------------------
(* Properties                                                              *)

CampaignTypeOK ==
  /\ TypeOK /\ GoldenTypeOK
  /\ plan \in Plans /\ order \in Orders /\ slo \in CampaignNames
  /\ pass \in 1..(M + 1) /\ pillar \in 1..(Len(Pillars) + 1) /\ turn \in 1..Len(order)
  /\ begun \in BOOLEAN
  /\ failedModels \subseteq Models
  /\ exit \in {"none", "ok", "model_failure", "harness_error"}

(* A row was measured with the window of the campaign it is labelled with, *)
(* and with its lengths, whichever campaigns and models went before;       *)
(* chat-like has no lengths of its own.                                    *)
LabelTrue ==
  \A r \in rows : r.pillar \in PerCampaign =>
    /\ r.window = CampaignCtx(r.label, r.lengths)
    /\ r.label # "chat_like" => r.lengths = Geometry[r.label]

(* The models of one program are stressed alike: with the same lengths,    *)
(* window and latency objective, even if one of them failed on the way.    *)
StressUniform ==
  \A q, r \in rows : q.slo # "none" /\ r.slo # "none" =>
    q.lengths = r.lengths /\ q.window = r.window /\ q.slo = r.slo

(* A program that returned has a row for every cell of every pass, unless  *)
(* the model of the pass is reported as failed.                            *)
Complete ==
  exit # "none" => \A m \in Models, i \in 1..Len(Pillars) :
    Runs(m, Pillars[i]) /\ groups[m] \notin failedModels =>
      \A c \in IF Pillars[i] \in PerCampaign THEN {order[t] : t \in 1..Len(order)} ELSE {"none"} :
        \E r \in rows : r.pass = m /\ r.pillar = Pillars[i] /\ r.label = c

(* Exit code 0: every text measurement and every golden set that was asked *)
(* for is there and good, for every model.                                 *)
ZeroMeansClean ==
  exit = "ok" => \A m \in Models, p \in plan \cap (TextPillars \cup {"golden"}) :
    /\ \E r \in rows : r.pass = m /\ r.pillar = p
    /\ \A r \in rows : r.pillar = p => r.status \in {"ok", "passed"}

(* A figure was measured beside an abandoned suite only where the report   *)
(* shows it: under a budget, after a suite of an earlier pass timed out or *)
(* its model failed.                                                       *)
DisturbedOnlyByTimedOut ==
  \A r \in rows : r.beside =>
    /\ flags.budget
    /\ \E m \in 1..(r.pass - 1) :
         swept[m] = "lost" \/ \E s \in Suites : row[<<m, s>>] = "timeout"

(* Under a budget main returns, whatever suites and endpoint do.           *)
CampaignReturns == flags.budget ~> exit # "none"
=============================================================================
