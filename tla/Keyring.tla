------------------------------ MODULE Keyring -------------------------------
(***************************************************************************)
(* The publisher's keyring: one encrypted file with the private key and    *)
(* the register of the keys issued, which the window of the tool and the   *)
(* command line both rewrite whole (licences/App, EmissionScreen,          *)
(* OuvertureScreen, core/trousseau, lib.rs, licence.mjs and the shared     *)
(* trousseau and emission).                                                *)
(***************************************************************************)
EXTENDS Integers, FiniteSets

CONSTANTS
  Clicks,      \* the emissions of the window under way at once
  Keys,        \* the keys there are to issue
  CommandLine, \* the other tool
  MaxCuts      \* bound on failing writes, power cuts and closings

ASSUME KeyringAssumption == CommandLine \notin Clicks

\* A file that openTrousseau opens has both; no file, or a cut one, has neither.
Absent == [signing |-> "absent", register |-> {}]
Torn == [signing |-> "torn", register |-> {}]
Fresh == [signing |-> "ours", register |-> {}]

VARIABLES
  file,      \* what the tools read there
  dirty,     \* its bytes may not be on the disk yet: the command line wrote them
  behind,    \* what a power cut may still bring back instead: a rename is on the disk
             \* when the directory is, which no tool waits for
  window,    \* what the window holds of it, or Absent: it is shut; its phrase; its flag
  work,      \* what each emission has left to do, with what it saw
  issued,    \* the keys signed
  displayed, \* the keys shown to the publisher
  crossed,   \* a register was written over one that had changed since it was read
  back,      \* a cut brought an older file back
  settled,   \* the keys that were in the register on the disk
  cuts

keyringVars == <<file, dirty, behind, window, work, issued, displayed, crossed, back, settled, cuts>>
diskVars == <<file, dirty, behind, crossed, back, settled>>

Tools == Clicks \cup {CommandLine}
Idle == [at |-> "idle"]
Shut == [content |-> Absent, phrase |-> FALSE, busy |-> FALSE]

KeyringInit ==
  /\ file \in {Absent, Fresh} /\ dirty = FALSE /\ behind = {} /\ window = Shut
  /\ work = [t \in Tools |-> Idle]
  /\ issued = {} /\ displayed = {} /\ crossed = FALSE /\ back = FALSE
  /\ settled = {} /\ cuts = 0

Readable(content) == content \notin {Absent, Torn}
Has(t, at) == work[t].at = at
Ends(t) == work' = [work EXCEPT ![t] = Idle]
Cut == cuts < MaxCuts /\ cuts' = cuts + 1

\* A file is renamed over the one there was (ecrire_atomique, ecrireAtomique).
Renamed(content) ==
  /\ file' = content
  /\ behind' = behind \cup {file} \cup (IF dirty THEN {Torn} ELSE {})

\* The first keyring (creer: engendrer or reprendre, enregistrer, ouvrir)
Create ==
  /\ window.content = Absent /\ file = Absent
  /\ Renamed(Fresh) /\ dirty' = FALSE
  /\ window' = [Shut EXCEPT !.content = Fresh, !.phrase = TRUE]
  /\ UNCHANGED <<work, issued, displayed, crossed, back, settled, cuts>>

\* deverrouiller
Open ==
  /\ window.content = Absent /\ Readable(file)
  /\ window' = [window EXCEPT !.content = file, !.phrase = TRUE]
  /\ UNCHANGED <<diskVars, work, issued, displayed, cuts>>

\* fermer: what is under way goes on.
Close ==
  /\ window.content # Absent /\ Cut
  /\ window' = [window EXCEPT !.content = Absent, !.phrase = FALSE]
  /\ UNCHANGED <<diskVars, work, issued, displayed>>

----------------------------------------------------------------------------
\* An emission: the click sees the register and the phrase of its rendering, the key is
\* signed, the file rewritten, and the key shown (emettre, inscrire; licence.mjs).

Begin(t, seen, phrase) ==
  /\ Has(t, "idle") /\ Keys \ issued # {}
  /\ work' = [work EXCEPT ![t] = [at |-> "sign", seen |-> seen, phrase |-> phrase, key |-> {}]]

Click(t) ==
  /\ t \in Clicks /\ window.content # Absent /\ ~window.busy
  /\ Begin(t, window.content, window.phrase)
  /\ UNCHANGED <<diskVars, window, issued, displayed, cuts>>

RunCommand ==
  /\ Readable(file) /\ Begin(CommandLine, file, TRUE)
  /\ UNCHANGED <<diskVars, window, issued, displayed, cuts>>

\* emitLicence, then the flag of inscrire
Sign(t) ==
  /\ Has(t, "sign")
  /\ \E k \in Keys \ issued :
       /\ issued' = issued \cup {k}
       /\ work' = [work EXCEPT ![t].at = "write", ![t].key = {k}]
  /\ window' = IF t \in Clicks THEN [window EXCEPT !.busy = TRUE] ELSE window
  /\ UNCHANGED <<diskVars, displayed, cuts>>

Entered(t) == [work[t].seen EXCEPT !.register = @ \cup work[t].key]

\* enregistrer, ecrire_atomique: the whole file is renamed into place.  The bytes of the
\* window's are on the disk before; the command line's are not forced there.
Write(t) ==
  /\ Has(t, "write") /\ work[t].phrase
  /\ Renamed(Entered(t)) /\ dirty' = (t = CommandLine)
  /\ crossed' = (crossed \/ file # work[t].seen)
  /\ work' = [work EXCEPT ![t].at = "show"]
  /\ UNCHANGED <<window, issued, displayed, back, settled, cuts>>

\* A write that is refused, as it is with the phrase of a window that was shut: the key
\* is not shown.
WriteFails(t) ==
  /\ Has(t, "write") /\ (IF work[t].phrase THEN Cut ELSE UNCHANGED cuts)
  /\ Ends(t) /\ window' = IF t \in Clicks THEN [window EXCEPT !.busy = FALSE] ELSE window
  /\ UNCHANGED <<diskVars, issued, displayed>>

\* setOuvert, setResultat: a window that was shut meanwhile is open again.
Show(t) ==
  /\ Has(t, "show") /\ displayed' = displayed \cup work[t].key
  /\ Ends(t)
  /\ window' = IF t \in Clicks
               THEN [window EXCEPT !.content = Entered(t), !.busy = FALSE] ELSE window
  /\ UNCHANGED <<diskVars, issued, cuts>>

\* Seeded fault: the file is written in place.
LeavesInPlace ==
  {file} \cup behind \cup (IF dirty \/ \E t \in Tools : Has(t, "write") THEN {Torn} ELSE {})

\* What a cut leaves: the last file renamed, unless its bytes had not reached the disk, or one
\* it replaced, while the directory had not.
Leaves == {file} \cup behind \cup (IF dirty THEN {Torn} ELSE {})

PowerCut ==
  /\ Cut /\ file' \in Leaves /\ dirty' = FALSE /\ behind' = {}
  /\ back' = (back \/ file' \notin {file, Torn})
  /\ window' = Shut /\ work' = [t \in Tools |-> Idle]
  /\ UNCHANGED <<issued, displayed, crossed, settled>>

\* In the end the system writes the file and the directory.
Flush ==
  /\ dirty \/ behind # {}
  /\ dirty' = FALSE /\ behind' = {} /\ settled' = file.register
  /\ UNCHANGED <<file, window, work, issued, displayed, crossed, back, cuts>>

KeyringNext ==
  \/ Create \/ Open \/ Close \/ RunCommand \/ PowerCut \/ Flush
  \/ \E t \in Tools : Click(t) \/ Sign(t) \/ Write(t) \/ WriteFails(t) \/ Show(t)

KeyringSpec == KeyringInit /\ [][KeyringNext]_keyringVars

----------------------------------------------------------------------------
\* Properties.

\* A key that was shown is in the register, whatever fails and whatever is shut, unless a
\* register was rewritten from a copy that was no longer the file's, or a cut tore the file of
\* the command line or brought an older one back; and a cut brings none back that lacks a key
\* the disk has had (inscrire, enregistrer, ecrire_atomique).
ShownIsRegistered ==
  ~crossed /\ file # Torn =>
    settled \cup (IF back THEN {} ELSE displayed) \subseteq file.register

\* What was shown stays registered, and the only copy of the private key is never lost by a
\* window that writes it: after any cut the file is an old one or the new one
\* (ecrire_atomique), once there has been one on the disk.
KeysAreKept ==
  [][ /\ ShownIsRegistered'
      /\ (Readable(file) /\ ~dirty /\ {Absent, Torn} \cap behind = {}) =>
           Readable(file') ]_keyringVars
=============================================================================
