------------------------------ MODULE MCFrames ------------------------------
(***************************************************************************)
(* What becomes of frames, for TLC, in one of three settings: snull's data *)
(* path with one transmitter, the addresses in snull's frames, and         *)
(* dummy-eth's reflector.  The variables of the others rest.               *)
(***************************************************************************)
EXTENDS Snull, MCPings

VARIABLE setting

frameVars == <<setting, vars, aliasVars, reflectVars>>

(* What varies initially varies for the setting at hand only.              *)
FramesInit ==
    /\ setting \in {"data path", "addresses", "reflector"}
    /\ Init /\ Aliases!Init /\ Reflect!Init
    /\ setting # "data path" => npool = [d \in Dev |-> PoolSize]
    /\ setting # "addresses" => ip[0] = <<192, 168, 0, 1>> /\ ip[1] = <<192, 168, 1, 2>>

InPath(A) == setting = "data path" /\ A /\ UNCHANGED <<setting, aliasVars, reflectVars>>
InAliases(A) == setting = "addresses" /\ A /\ UNCHANGED <<setting, vars, reflectVars>>
InReflect(A) == setting = "reflector" /\ A /\ UNCHANGED <<setting, vars, aliasVars>>

FramesNext == InPath(Next) \/ InAliases(Aliases!Next) \/ InReflect(Reflect!Next)

(* The fairness of each component, in its setting.                         *)
FramesSpec ==
    /\ FramesInit /\ [][FramesNext]_frameVars
    /\ \A d \in Dev :
          /\ WF_frameVars(InPath(XmitStep(d)))
          /\ WF_frameVars(InPath(WatchdogStep(d)))
          /\ WF_frameVars(InPath(PollStep(d)))
          /\ WF_frameVars(InPath(napi_disable(d)))
    /\ \A c \in Ctx : WF_frameVars(InPath(HandlerStep(c)))
    /\ WF_frameVars(InAliases(Aliases!Transfer))
    /\ WF_frameVars(InReflect(Reflect!Next))
=============================================================================
