----------------------------- MODULE SweepLedger -----------------------------
(***************************************************************************)
(* What a sweep promises, without servers, ports, gates, files or the steps *)
(* of a variant: a ledger that follows the plan, in which an entry that is  *)
(* made is never touched again, says one of three things, and says it       *)
(* completely; and one manifest per sweep, of the complete ledger.          *)
(***************************************************************************)
EXTENDS Integers, Sequences

CONSTANTS Count,      \* how many variants the plan has
          Images      \* the variants whose config supports images

VARIABLES sweep,      \* the number of the sweep
          ledger,     \* what it says of the variants that are done
          published   \* the manifest written last

ledgerVars == <<sweep, ledger, published>>

Codes == {"ok", "failed"}

(* Not started: nothing was run, and there is no port to ask about.         *)
Skipped(w) == [variant : {w}, outcome : {"skipped"}, benchmark : {"none"},
               stream : {"none"}, closed : {"unknown"}]

(* Started and not ready in time: nothing was run on it.                    *)
Unready(w) == [variant : {w}, outcome : {"unready"}, benchmark : {"none"},
               stream : {"none"}, closed : {"yes", "no"}]

(* Measured: with a fake stream if, and only if, its config has images.     *)
Measured(w) == [variant : {w}, outcome : {"measured"}, benchmark : Codes,
                stream : IF w \in Images THEN Codes ELSE {"none"},
                closed : {"yes", "no"}]

Lines(w) == Skipped(w) \cup Unready(w) \cup Measured(w)

LedgerInit == /\ sweep = 0 /\ ledger = <<>>
              /\ published = [sweep |-> 0, ledger |-> <<>>, report |-> {}]

Begin == /\ sweep' = sweep + 1 /\ ledger' = <<>>
         /\ UNCHANGED published

Enter == /\ Len(ledger) < Count
         /\ \E line \in Lines(Len(ledger) + 1) : ledger' = Append(ledger, line)
         /\ UNCHANGED <<sweep, published>>

(* The report is about the variants whose own benchmark succeeded.          *)
Publish == /\ Len(ledger) = Count /\ published.sweep # sweep
           /\ published' = [sweep |-> sweep, ledger |-> ledger,
                            report |-> {w \in 1..Count : ledger[w].benchmark = "ok"}]
           /\ UNCHANGED <<sweep, ledger>>

LedgerNext == Begin \/ Enter \/ Publish

LedgerSpec == LedgerInit /\ [][LedgerNext]_ledgerVars
=============================================================================
