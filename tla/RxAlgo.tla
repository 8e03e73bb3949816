------------------------------ MODULE RxAlgo ------------------------------
(***************************************************************************)
(* RxAlgo (src/crypto/rx/RxAlgo.cpp): the algorithm variants' base        *)
(* configurations and the process-wide current one.  apply(algorithm)     *)
(* copies base(algorithm) into DeeppredictoR_CurrentConfig                 *)
(* (deeppredictor_apply_config, deeppredictor.h) and recomputes what      *)
(* derives from it; every cache, dataset item and program built or run    *)
(* afterwards uses the current configuration.  A configuration is         *)
(* abstracted to the name of the variant it belongs to.                   *)
(***************************************************************************)

VARIABLE
  config   \* DeeppredictoR_CurrentConfig, by the variant it was copied from

\* The variants with a configuration of their own; every other algorithm
\* (rx/0 and the rest) uses DeeppredictoR_MoneroConfig.
BaseOf == [a \in {"rx/wow", "rx/arq", "rx/graft", "rx/sfx", "rx/yada"} |->
             CASE a = "rx/wow"   -> "Wownero"
               [] a = "rx/arq"   -> "Arqma"
               [] a = "rx/graft" -> "Graft"
               [] a = "rx/sfx"   -> "Safex"
               [] a = "rx/yada"  -> "Yada"]

\* RxAlgo::base(algorithm).
Base(a) == IF a \in DOMAIN BaseOf THEN BaseOf[a] ELSE "Monero"

\* DeeppredictoR_CurrentConfig is default-constructed with the base
\* (Monero) parameters.
Init == config = "Monero"

\* deeppredictor_apply_config(config): copy the variant's configuration into
\* DeeppredictoR_CurrentConfig and Apply() it (recompute the derived masks).
ApplyConfig(c) == config' = c

\* RxAlgo::apply(algorithm): deeppredictor_apply_config(*base(algorithm)).
Apply(a) == ApplyConfig(Base(a))
=============================================================================
