--------------------------- MODULE MCEngineManager ---------------------------
(* Small instances of EngineManager. *)
EXTENDS EngineManager, TLC

ShippedTargets == "turkey" :> "goodbye" @@ "isp" :> "goodbye"
                  @@ "proxy" :> "byedpi"

Start(e, p) == [op |-> "start", engine |-> e, profile |-> p]
SwitchTo(e, p) == [op |-> "switch", engine |-> e, profile |-> p]
Auto(p) == [op |-> "auto", profile |-> p]

MixedRequests == {Start("goodbye", "isp"), SwitchTo("byedpi", "proxy"),
                  Start("native", "isp"), Auto("isp"), Auto("proxy"),
                  StopRequest}

ManagerFaults == AllFaults \ {"race"}

=============================================================================
