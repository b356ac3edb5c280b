---------------------------- MODULE AdvisorySettings ----------------------------
(***************************************************************************)
(* The two stores of advisory settings side by side: the policies (P) and   *)
(* the weighting config (W).  They share no file, no lock and no preview,   *)
(* so that any interleaving of them is one of each.                         *)
(***************************************************************************)
EXTENDS AdvisoryFiles

CONSTANTS
    PolicyPortfolios,   \* the portfolios that have policies
    Changes,            \* patches of a policy's rules
    Updates,            \* patches of the config
    MaxVersion          \* bound on the length of a chain of bases

VARIABLES
    policies, manifestP, lockP, pcP, workP, pendingP, replyP,
    config, manifestW, lockW, pcW, workW, pendingW, replyW

policyVars == <<policies, manifestP, lockP, pcP, workP, pendingP, replyP>>

configVars == <<config, manifestW, lockW, pcW, workW, pendingW, replyW>>

P == INSTANCE AdvisoryPolicies WITH
         Portfolios <- PolicyPortfolios,
         manifest <- manifestP,
         lock <- lockP,
         pc <- pcP,
         work <- workP,
         pending <- pendingP,
         reply <- replyP

W == INSTANCE OpinionWeighting WITH
         manifest <- manifestW,
         lock <- lockW,
         pc <- pcW,
         work <- workW,
         pending <- pendingW,
         reply <- replyW

(* What stands for a damaged file is no config, for no work no preview.     *)
ASSUME SettingsAssumption ==
    /\ MaxVersion \in Nat
    /\ Damaged \notin W!Config
    /\ NoWork \notin W!Preview

(* While the policies are usable, a portfolio's are one line of succession  *)
(* with the last in force, and what was answered "applied" is in it.        *)
PoliciesSucceed == P!PoliciesSucceed

(* Policies that do not validate, with nobody writing, never will again.    *)
PoliciesUnusableForGood == P!PoliciesUnusableForGood

(* Nor will a weighting config that does not validate.                      *)
UnusableForGood == W!UnusableForGood
================================================================================
