-------------------------- MODULE Discovery_proofs ---------------------------
(***************************************************************************)
(* Proofs about Discovery: with at most nine index sectors, mount finds    *)
(* the newest index sector and the whole sequence, whatever rotations,     *)
(* power losses and interrupted erases came before.                        *)
(***************************************************************************)
EXTENDS Discovery, TLAPS

\* The valid headers are the last length sectors, ending at newest, and
\* their serials count back from the newest; a dead header, or what a torn
\* erase made of it, is the one just before them.  Before the first wrap the sequence starts at sector 0.
Shape ==
  /\ \A s \in Sectors : hdr[s] = "valid" <=> Age(s, newest) < length
  /\ \A s \in Sectors : hdr[s] = "valid" =>
        serial[s] = SerialBack(serial[newest], Age(s, newest))
  /\ \A s \in Sectors : hdr[s] \in {"dead", "other"} =>
        /\ length = IndexSectors - 1
        /\ Age(s, newest) = IndexSectors - 1
        /\ serial[s] = SerialBack(serial[newest], Age(s, newest))
  /\ length < IndexSectors - 1 => newest = length - 1

\* What fs->... holds between the flash operations of a mounted system.
Mounted ==
  /\ pc = "up" =>
       /\ active = newest /\ activeSerial = serial[newest]
       /\ count = length /\ length <= IndexSectors - 1
       /\ Age(oldest, newest) = length - 1
  /\ pc = "commit" =>
       /\ active = NextSector(newest)
       /\ activeSerial = NextSerial(serial[newest])
       /\ count = length + 1 /\ length <= IndexSectors - 1
       /\ hdr[active] = "none"
       /\ Age(oldest, newest) = length - 1
  /\ pc = "finish" =>
       /\ active = newest /\ activeSerial = serial[newest]
       /\ count = IndexSectors /\ length = IndexSectors
       /\ Age(oldest, newest) = length - 1

\* The discovery loops: the best header so far is the youngest one scanned;
\* the walk has followed count consecutive sectors back from the newest.
Scanning ==
  /\ pc = "off" => i = 0 /\ active = NoSector
  /\ pc = "scan" =>
       /\ active # NoSector =>
            /\ active < i /\ hdr[active] = "valid"
            /\ activeSerial = serial[active]
       /\ \A s \in Sectors : s < i /\ hdr[s] = "valid" =>
             active # NoSector /\ Age(active, newest) <= Age(s, newest)
  /\ pc = "walk" =>
       /\ active = newest /\ activeSerial = serial[newest]
       /\ count = Age(oldest, newest) + 1 /\ count <= length

IInv == TypeOK /\ Shape /\ Mounted /\ Scanning

(* Arithmetic of ages and serials. *)

\* How many sectors back a sector lies from the newest one: zero for itself, the
\* most for the sector that a rotation would take next.
LEMMA AgeType ==
  ASSUME NEW a \in Sectors, NEW s \in Sectors
  PROVE  /\ Age(s, a) \in 0..(IndexSectors - 1)
         /\ Age(s, a) = 0 <=> s = a
         /\ Age(s, a) = IndexSectors - 1 <=> s = NextSector(a)
         /\ NextSector(a) \in Sectors /\ NextSector(a) # a
         /\ PrevSector(a) \in Sectors
  BY IndexSectorsAssumption DEF Sectors, Age, NextSector, PrevSector

\* One sector on is one age less, one sector back or one rotation is one more.
LEMMA AgeStep ==
  ASSUME NEW a \in Sectors, NEW s \in Sectors
  PROVE  /\ s # a => Age(NextSector(s), a) = Age(s, a) - 1
         /\ s # NextSector(a) => Age(PrevSector(s), a) = Age(s, a) + 1
         /\ s # NextSector(a) => Age(s, NextSector(a)) = Age(s, a) + 1
  BY IndexSectorsAssumption DEF Sectors, Age, NextSector, PrevSector

\* Serials counted back from one that wraps at sixteen.
LEMMA SerialArith ==
  ASSUME NEW s \in Serials, NEW k \in 0..14
  PROVE  /\ SerialBack(s, k) \in Serials
         /\ SerialBack(s, 0) = s
         /\ NextSerial(s) \in Serials /\ PrevSerial(s) \in Serials
         /\ SerialBack(NextSerial(s), k + 1) = SerialBack(s, k)
         /\ SerialBack(s, k + 1) = PrevSerial(SerialBack(s, k))
  BY DEF Serials, SerialBack, NextSerial, PrevSerial

\* The half-range comparison orders serials by age while the ages stay below
\* nine, except that it cannot tell the youngest from one eight older.
LEMMA NewerIsYounger ==
  ASSUME NEW s \in Serials, NEW a \in 0..8, NEW b \in 0..8, b - a # 8
  PROVE  SerialNewer(SerialBack(s, a), SerialBack(s, b)) <=> a < b
  BY DEF Serials, SerialBack, SerialNewer

-----------------------------------------------------------------------------

\* A formatted index has one valid header, in sector 0.
LEMMA InitIInv == Init => IInv
<1> SUFFICES ASSUME Init PROVE IInv
  OBVIOUS
<1>1. TypeOK
  BY IndexSectorsAssumption DEF Init, TypeOK, Sectors, Serials, NoSector
<1>2. Shape
  <2>1. 0 \in Sectors /\ newest = 0 /\ length = 1 /\ serial[newest] = 0
    BY IndexSectorsAssumption DEF Init, Sectors
  <2>2. \A s \in Sectors : hdr[s] = "valid" <=> Age(s, newest) < length
    BY <2>1, AgeType, IndexSectorsAssumption DEF Init
  <2>3. \A s \in Sectors : hdr[s] = "valid" =>
          serial[s] = SerialBack(serial[newest], Age(s, newest))
    BY <2>1, AgeType DEF Init, SerialBack
  <2>4. \A s \in Sectors : hdr[s] \notin {"dead", "other"}
    BY DEF Init
  <2>5. newest = length - 1
    BY <2>1
  <2> QED BY <2>2, <2>3, <2>4, <2>5 DEF Shape
<1>3. Mounted /\ Scanning
  BY DEF Init, Mounted, Scanning
<1> QED BY <1>1, <1>2, <1>3 DEF IInv

\* Rotations, power losses and every step of the scans of mount keep the
\* invariant.
LEMMA NextIInv ==
  ASSUME IndexSectors <= 9, TornEraseSerials = {}
  PROVE  IInv /\ [Next]_vars => IInv'
<1> SUFFICES ASSUME TypeOK, Shape, Mounted, Scanning, [Next]_vars
             PROVE  TypeOK' /\ Shape' /\ Mounted' /\ Scanning'
  BY DEF IInv
<1>0. /\ newest \in Sectors /\ oldest \in Sectors /\ serial[newest] \in Serials
      /\ active # NoSector => active \in Sectors
      /\ IndexSectors \in 2..9 /\ length \in 1..IndexSectors
  BY IndexSectorsAssumption DEF TypeOK
<1>1. /\ NextSector(newest) \in Sectors /\ NextSector(newest) # newest
      /\ Age(newest, newest) = 0
      /\ Age(NextSector(newest), newest) = IndexSectors - 1
      /\ \A s \in Sectors : Age(s, newest) \in 0..(IndexSectors - 1)
  BY <1>0, AgeType
<1>2. hdr[newest] = "valid"
  BY <1>0, <1>1 DEF Shape
<1>3. ASSUME UNCHANGED media PROVE Shape'
  BY <1>3 DEF media, Shape
<1>4. CASE RotateBegin
  <2>1. /\ active = newest /\ length <= IndexSectors - 1
        /\ hdr' = [hdr EXCEPT ![NextSector(newest)] = "none"]
        /\ serial' = [serial EXCEPT ![NextSector(newest)] = 15]
        /\ active' = NextSector(newest) /\ oldest' = oldest
        /\ newest' = newest /\ length' = length /\ pc' = "commit"
        /\ activeSerial' = NextSerial(serial[newest])
        /\ count' = length + 1 /\ i' = i
        /\ Age(oldest, newest) = length - 1
    BY <1>4, <1>0 DEF RotateBegin, Mounted
  <2>2. TypeOK'
    <3>1. NextSerial(serial[newest]) \in Serials /\ 15 \in Serials
      BY <1>0 DEF Serials, NextSerial
    <3> QED BY <2>1, <3>1, <1>0, <1>1 DEF TypeOK
  <2>3. \A s \in Sectors :
          IF s = NextSector(newest)
          THEN hdr'[s] = "none" /\ hdr[s] # "valid"
          ELSE hdr'[s] = hdr[s] /\ serial'[s] = serial[s]
    BY <2>1, <1>0, <1>1 DEF TypeOK, Shape
  <2>4. serial'[newest] = serial[newest]
    BY <2>3, <1>0, <1>1
  <2>5. Shape'
    BY <2>1, <2>3, <2>4 DEF Shape
  <2>6. hdr'[active'] = "none"
    BY <2>1, <2>3, <1>1
  <2> QED BY <2>1, <2>2, <2>4, <2>5, <2>6 DEF Mounted, Scanning
<1>5. CASE RotateCommit
  <2>1. /\ active = NextSector(newest) /\ active' = active
        /\ newest' = active /\ length' = length + 1
        /\ length \in 1..(IndexSectors - 1)
        /\ hdr' = [hdr EXCEPT ![active] = "valid"] /\ hdr[active] = "none"
        /\ serial' = [serial EXCEPT ![active] = activeSerial]
        /\ activeSerial = NextSerial(serial[newest])
        /\ activeSerial' = activeSerial
        /\ count = length + 1 /\ count' = count
        /\ oldest' = oldest /\ Age(oldest, newest) = length - 1
        /\ pc' = IF count = IndexSectors THEN "finish" ELSE "up"
    BY <1>5, <1>0 DEF RotateCommit, ram, Mounted
  <2>2. TypeOK'
    BY <2>1, <1>0, <1>1, <1>5 DEF TypeOK, RotateCommit, ram
  <2>3. /\ Age(active, active) = 0
        /\ \A s \in Sectors : s # active =>
             Age(s, active) = Age(s, newest) + 1
    BY <2>1, <1>0, <1>1, AgeType, AgeStep
  <2>4. \A s \in Sectors : hdr'[s] = "valid" <=> Age(s, newest') < length'
    <3> SUFFICES ASSUME NEW s \in Sectors
                 PROVE  hdr'[s] = "valid" <=> Age(s, active) < length + 1
      BY <2>1
    <3>1. CASE s = active
      BY <3>1, <2>1, <2>3, <1>1 DEF TypeOK
    <3>2. CASE s # active
      <4>1. hdr'[s] = hdr[s] /\ (hdr[s] = "valid" <=> Age(s, newest) < length)
        BY <3>2, <2>1 DEF TypeOK, Shape
      <4> QED BY <4>1, <3>2, <2>1, <2>3, <1>1
    <3> QED BY <3>1, <3>2
  <2>5. serial'[newest'] = NextSerial(serial[newest])
    BY <2>1, <1>1 DEF TypeOK
  <2>6. ASSUME NEW s \in Sectors, hdr'[s] = "valid"
        PROVE  serial'[s] = SerialBack(serial'[newest'], Age(s, newest'))
    <3>1. CASE s = active
      <4>1. serial'[s] = NextSerial(serial[newest]) /\ Age(s, newest') = 0
        BY <3>1, <2>1, <2>3, <2>5
      <4>2. SerialBack(NextSerial(serial[newest]), 0) =
              NextSerial(serial[newest])
        BY <1>0 DEF SerialBack, NextSerial, Serials
      <4> QED BY <4>1, <4>2, <2>5
    <3>2. CASE s # active
      <4>1. /\ serial'[s] = serial[s] /\ hdr[s] = "valid"
            /\ Age(s, newest') = Age(s, newest) + 1
        BY <3>2, <2>6, <2>1, <2>3 DEF TypeOK
      <4>2. serial[s] = SerialBack(serial[newest], Age(s, newest))
        BY <4>1 DEF Shape
      <4>3. Age(s, newest) \in 0..14
        BY <1>1, <1>0
      <4>4. SerialBack(NextSerial(serial[newest]), Age(s, newest) + 1) =
              SerialBack(serial[newest], Age(s, newest))
        BY <4>3, <1>0, SerialArith
      <4> QED BY <4>1, <4>2, <4>4, <2>5
    <3> QED BY <3>1, <3>2
  <2>7. \A s \in Sectors : hdr'[s] \notin {"dead", "other"}
    <3> SUFFICES ASSUME NEW s \in Sectors, hdr[s] \in {"dead", "other"}, s # active
                 PROVE  FALSE
      BY <2>1 DEF TypeOK
    <3> QED BY <2>1, <1>0, AgeType DEF Shape
  <2>8. length' < IndexSectors - 1 => newest' = length' - 1
    <3>1. length < IndexSectors - 2 => newest = length - 1
      BY <1>0 DEF Shape
    <3> QED BY <3>1, <2>1, <1>0 DEF NextSector
  <2>9. Shape'
    BY <2>4, <2>6, <2>7, <2>8 DEF Shape
  <2>10. Age(oldest', newest') = length' - 1
    <3>1. oldest # active
      BY <2>1, <1>0, <1>1
    <3> QED BY <3>1, <2>1, <2>3, <1>0
  <2> QED BY <2>1, <2>2, <2>5, <2>9, <2>10, <1>0 DEF Mounted, Scanning
<1>6. CASE CompactFinish
  <2>1. /\ length = IndexSectors /\ count = IndexSectors /\ active = newest
        /\ length' = length - 1 /\ count' = count - 1 /\ active' = active
        /\ hdr' = [hdr EXCEPT ![oldest] = "dead"] /\ serial' = serial
        /\ activeSerial = serial[newest] /\ activeSerial' = activeSerial
        /\ newest' = newest /\ oldest' = NextSector(oldest) /\ i' = i
        /\ pc' = "up" /\ Age(oldest, newest) = IndexSectors - 1
    BY <1>6, <1>0 DEF CompactFinish, Mounted
  <2>2. /\ oldest = NextSector(newest) /\ NextSector(oldest) \in Sectors
        /\ Age(NextSector(oldest), newest) = IndexSectors - 2
    BY <2>1, <1>0, <1>1, AgeType, AgeStep
  <2>3. TypeOK'
    BY <2>1, <2>2, <1>0 DEF TypeOK
  <2>4. \A s \in Sectors : s # oldest => Age(s, newest) < IndexSectors - 1
    BY <2>2, <1>0, <1>1, AgeType
  <2>5. \A s \in Sectors :
          /\ hdr[s] = "valid"
          /\ serial[s] = SerialBack(serial[newest], Age(s, newest))
          /\ hdr'[s] = IF s = oldest THEN "dead" ELSE "valid"
    BY <2>1, <1>0, <1>1 DEF Shape, TypeOK
  <2>6. Shape'
    <3>1. \A s \in Sectors : hdr'[s] = "valid" <=> Age(s, newest') < length'
      BY <2>1, <2>4, <2>5, <1>0
    <3>2. \A s \in Sectors :
            serial'[s] = SerialBack(serial'[newest'], Age(s, newest'))
      BY <2>1, <2>5
    <3>3. \A s \in Sectors : hdr'[s] \in {"dead", "other"} =>
            length' = IndexSectors - 1 /\ Age(s, newest') = IndexSectors - 1
      BY <2>1, <2>5
    <3>4. ~(length' < IndexSectors - 1)
      BY <2>1, <1>0
    <3> QED BY <3>1, <3>2, <3>3, <3>4 DEF Shape
  <2> QED BY <2>1, <2>2, <2>3, <2>6, <1>0 DEF Mounted, Scanning
<1>7. CASE PowerLoss
  <2>1. TypeOK'
    BY <1>7, <1>0 DEF PowerLoss, PowerOff, TypeOK, media, Sectors, Serials
  <2> QED BY <2>1, <1>3, <1>7 DEF PowerLoss, PowerOff, Mounted, Scanning
<1>8. ASSUME PowerLossInErase, hdr'[NextSector(newest)] = "valid"
      PROVE  TypeOK' /\ Shape' /\ Mounted' /\ Scanning'
  <2>1. /\ active = newest /\ newest' = newest /\ length' = length + 1
        /\ hdr[NextSector(newest)] = "dead" /\ pc' = "off"
        /\ hdr' = [hdr EXCEPT ![NextSector(newest)] = "valid"]
        /\ serial' = serial
        /\ i' = 0 /\ active' = NoSector
    <3>0. active = newest /\ hdr \in [Sectors -> {"none", "valid", "dead", "other"}]
      BY <1>8 DEF PowerLossInErase, Mounted, TypeOK
    <3>1. length' = length + 1 /\ serial' = serial
      <4> DEFINE old == serial[NextSector(active)]
      <4>1. ~(hdr' = [hdr EXCEPT ![NextSector(active)] = "other"])
        BY <1>8, <3>0, <1>1
      <4>2. \E x \in {old} \cup {y \in TornEraseSerials : BitsOf(old) \subseteq BitsOf(y)} :
              /\ serial' = [serial EXCEPT ![NextSector(active)] = x]
              /\ length' = IF x = old THEN length + 1 ELSE length
        BY <1>8, <4>1, ZenonT(30) DEF PowerLossInErase
      <4>3. /\ serial' = [serial EXCEPT ![NextSector(active)] = old]
            /\ length' = length + 1
        BY <4>2, ZenonT(30)
      <4> QED BY <4>3 DEF TypeOK
    <3>2. hdr' = [hdr EXCEPT ![NextSector(newest)] = "valid"]
      BY <1>8, <3>0, <1>1 DEF PowerLossInErase
    <3> QED BY <3>0, <3>1, <3>2, <1>8 DEF PowerLossInErase, PowerOff
  <2>2. /\ length = IndexSectors - 1
        /\ serial[NextSector(newest)] =
             SerialBack(serial[newest], Age(NextSector(newest), newest))
    BY <2>1, <1>1 DEF Shape, TypeOK
  <2>3. TypeOK'
    BY <1>8, <2>1, <2>2, <1>0, <1>1
    DEF PowerLossInErase, PowerOff, TypeOK, Sectors, Serials
  <2>4. \A s \in Sectors : s # NextSector(newest) =>
          Age(s, newest) < IndexSectors - 1
    BY <1>0, <1>1, AgeType
  <2>5. \A s \in Sectors :
          /\ hdr'[s] = "valid"
          /\ serial[s] = SerialBack(serial[newest], Age(s, newest))
    BY <2>1, <2>2, <2>4, <1>0, <1>1 DEF Shape, TypeOK
  <2>6. Shape'
    <3>1. \A s \in Sectors : Age(s, newest') < length'
      BY <2>1, <2>2, <1>0, <1>1
    <3>2. ~(length' < IndexSectors - 1)
      BY <2>1, <2>2, <1>0
    <3> QED BY <3>1, <3>2, <2>1, <2>2, <2>5 DEF Shape
  <2> QED BY <2>1, <2>3, <2>6 DEF Mounted, Scanning
<1>8a. ASSUME PowerLossInErase, hdr'[NextSector(newest)] # "valid"
       PROVE  TypeOK' /\ Shape' /\ Mounted' /\ Scanning'
  <2>0. active = newest /\ hdr \in [Sectors -> {"none", "valid", "dead", "other"}]
    BY <1>8a DEF PowerLossInErase, Mounted, TypeOK
  <2>1. /\ newest' = newest /\ length' = length /\ serial' = serial
        /\ hdr[NextSector(newest)] = "dead" /\ pc' = "off"
        /\ hdr' = [hdr EXCEPT ![NextSector(newest)] = "other"]
        /\ i' = 0 /\ active' = NoSector
    BY <1>8a, <2>0, <1>1 DEF PowerLossInErase, PowerOff
  <2>2. \A s \in Sectors : hdr'[s] = IF s = NextSector(newest) THEN "other" ELSE hdr[s]
    BY <2>0, <2>1
  <2>3. TypeOK'
    BY <1>8a, <2>0, <2>1, <1>0, <1>1
    DEF PowerLossInErase, PowerOff, TypeOK, Sectors, Serials
  <2>4. Shape'
    BY <2>1, <2>2 DEF Shape
  <2> QED BY <2>1, <2>3, <2>4 DEF Mounted, Scanning
<1>9. CASE Probe
  <2>1. TypeOK' /\ Mounted'
    BY <1>9 DEF Probe, media, ram, TypeOK, Mounted
  <2>2. Scanning'
    BY <1>9, <1>0 DEF Probe, media, ram, Scanning, Sectors
  <2> QED BY <2>1, <2>2, <1>3, <1>9 DEF Probe
<1>10. ASSUME ScanStep, hdr[i] # "other"
       PROVE  TypeOK' /\ Shape' /\ Mounted' /\ Scanning'
  <2>1. /\ i \in Sectors /\ i' = i + 1 /\ i' \in 0..IndexSectors
        /\ pc = "scan" /\ pc' = "scan"
        /\ UNCHANGED media /\ oldest' = oldest /\ count' = count
    BY <1>10, <1>0 DEF ScanStep, TypeOK, Sectors
  <2>2. \A s \in Sectors : Age(s, newest) \in 0..8
    BY <1>0, <1>1
  <2>3. ASSUME active # NoSector
        PROVE  /\ active \in Sectors /\ active < i /\ hdr[active] = "valid"
               /\ activeSerial = serial[active]
               /\ activeSerial = SerialBack(serial[newest], Age(active, newest))
    BY <2>1, <2>3, <1>0 DEF Scanning, Shape
  <2>4. ASSUME NEW s \in Sectors, s < i, hdr[s] = "valid"
        PROVE  active # NoSector /\ Age(active, newest) <= Age(s, newest)
    BY <2>1, <2>4 DEF Scanning
  <2>5. ASSUME active # NoSector, hdr[i] = "valid"
        PROVE  SerialNewer(serial[i], activeSerial)
                 <=> Age(i, newest) < Age(active, newest)
    <3>1. Age(active, newest) - Age(i, newest) # 8
      <4> SUFFICES ASSUME Age(active, newest) = 8, Age(i, newest) = 0
                   PROVE  FALSE
        BY <2>1, <2>2, <2>3, <2>5
      <4>1. i = newest /\ length = 9 /\ IndexSectors = 9
        <5>1. i = newest
          BY <2>1, <1>0, AgeType
        <5>2. Age(active, newest) < length
          BY <2>3, <2>5 DEF Shape
        <5> QED BY <5>1, <5>2, <1>0
      <4>2. i - 1 \in Sectors /\ Age(i - 1, newest) = 1 /\ i - 1 < i
        BY <4>1, <2>1, <2>3, <2>5 DEF Age, Sectors
      <4>3. hdr[i - 1] = "valid"
        BY <4>1, <4>2 DEF Shape
      <4> QED BY <4>2, <4>3, <2>4
    <3>2. serial[i] = SerialBack(serial[newest], Age(i, newest))
      BY <2>1, <2>5 DEF Shape
    <3>3. Age(i, newest) \in 0..8 /\ Age(active, newest) \in 0..8
      BY <2>1, <2>2, <2>3, <2>5
    <3>4. SerialNewer(SerialBack(serial[newest], Age(i, newest)),
                      SerialBack(serial[newest], Age(active, newest)))
            <=> Age(i, newest) < Age(active, newest)
      BY <3>1, <3>3, <1>0, NewerIsYounger
    <3> QED BY <3>2, <3>4, <2>3, <2>5
  <2>6. CASE hdr[i] = "valid" /\
             (active = NoSector \/ SerialNewer(serial[i], activeSerial))
    <3>1. active' = i /\ activeSerial' = serial[i]
      BY <2>6, <1>10 DEF ScanStep
    <3>2. TypeOK'
      BY <2>1, <3>1 DEF TypeOK, media
    <3>3. ASSUME NEW s \in Sectors, s < i + 1, hdr[s] = "valid"
          PROVE  Age(i, newest) <= Age(s, newest)
      <4>1. CASE s = i
        BY <4>1, <2>1, <2>2
      <4>2. CASE s # i
        <5>1. s < i
          BY <4>2, <3>3, <2>1 DEF Sectors
        <5>2. active # NoSector /\ Age(active, newest) <= Age(s, newest)
          BY <5>1, <3>3, <2>4
        <5>3. Age(i, newest) < Age(active, newest)
          BY <5>2, <2>5, <2>6
        <5> QED BY <5>2, <5>3, <2>1, <2>2, <2>3
      <4> QED BY <4>1, <4>2
    <3>4. i # NoSector /\ i < i + 1
      BY <2>1, <1>0 DEF Sectors, NoSector
    <3> QED BY <2>1, <2>6, <3>1, <3>2, <3>3, <3>4, <1>3
            DEF Scanning, Mounted, media
  <2>7. CASE ~(hdr[i] = "valid" /\
               (active = NoSector \/ SerialNewer(serial[i], activeSerial)))
    <3>1. active' = active /\ activeSerial' = activeSerial
      BY <2>7, <1>10 DEF ScanStep
    <3>2. TypeOK'
      BY <2>1, <3>1 DEF TypeOK, media
    <3>3. ASSUME NEW s \in Sectors, s < i + 1, hdr[s] = "valid"
          PROVE  active # NoSector /\ Age(active, newest) <= Age(s, newest)
      <4>1. CASE s = i
        <5>1. active # NoSector /\ ~SerialNewer(serial[i], activeSerial)
          BY <4>1, <3>3, <2>7
        <5>2. ~(Age(i, newest) < Age(active, newest))
          BY <5>1, <4>1, <3>3, <2>5
        <5> QED BY <5>1, <5>2, <4>1, <2>1, <2>2, <2>3
      <4>2. CASE s # i
        <5>1. s < i
          BY <4>2, <3>3, <2>1 DEF Sectors
        <5> QED BY <5>1, <3>3, <2>4
      <4> QED BY <4>1, <4>2
    <3>4. active # NoSector => active < i + 1
      BY <2>1, <2>3 DEF Sectors
    <3> QED BY <2>1, <2>3, <3>1, <3>2, <3>3, <3>4, <1>3
            DEF Scanning, Mounted, media
  <2> QED BY <2>6, <2>7
<1>10a. ASSUME ScanStep, hdr[i] = "other"
        PROVE  TypeOK' /\ Shape' /\ Mounted' /\ Scanning'
  <2>1. /\ UNCHANGED media /\ i' \in 0..IndexSectors /\ pc' = "corrupt"
        /\ UNCHANGED <<active, activeSerial, oldest, count>>
    BY <1>10a, <1>0 DEF ScanStep, TypeOK
  <2>2. TypeOK'
    BY <2>1 DEF TypeOK, media
  <2> QED BY <2>1, <2>2, <1>3 DEF Mounted, Scanning
<1>11. CASE ScanEnd
  <2>1. newest < i
    BY <1>11, <1>0 DEF ScanEnd, Sectors
  <2>2. active \in Sectors /\ activeSerial = serial[active]
        /\ Age(active, newest) <= Age(newest, newest)
    BY <2>1, <1>11, <1>0, <1>2 DEF ScanEnd, Scanning
  <2>3. active = newest
    BY <2>2, <1>0, <1>1, AgeType
  <2>4. /\ active' = active /\ activeSerial' = activeSerial /\ pc' = "walk"
        /\ oldest' = active /\ count' = 1 /\ UNCHANGED media /\ i' = i
    BY <1>11 DEF ScanEnd
  <2>5. TypeOK'
    BY <2>2, <2>4, <1>0 DEF TypeOK, media
  <2>6. Scanning'
    BY <2>2, <2>3, <2>4, <1>0, <1>1 DEF Scanning, media
  <2> QED BY <2>4, <2>5, <2>6, <1>3 DEF Mounted
<1>12. CASE WalkStep
  <2>1. /\ active = newest /\ activeSerial = serial[newest]
        /\ count = Age(oldest, newest) + 1 /\ count < IndexSectors
        /\ hdr[PrevSector(oldest)] = "valid"
        /\ oldest' = PrevSector(oldest) /\ count' = count + 1
        /\ pc' = "walk" /\ UNCHANGED media /\ i' = i
        /\ active' = active /\ activeSerial' = activeSerial
    BY <1>12 DEF WalkStep, Continues, Scanning
  <2>2. /\ PrevSector(oldest) \in Sectors
        /\ Age(PrevSector(oldest), newest) = Age(oldest, newest) + 1
    <3>1. oldest # NextSector(newest)
      BY <2>1, <1>0, <1>1
    <3> QED BY <3>1, <1>0, AgeType, AgeStep
  <2>3. count' <= length
    BY <2>1, <2>2, <1>0, <1>1 DEF Shape
  <2>4. TypeOK'
    BY <2>1, <2>2, <1>0, <1>1 DEF TypeOK, media
  <2>5. Scanning'
    BY <2>1, <2>2, <2>3, <1>0, <1>1 DEF Scanning, media
  <2> QED BY <2>1, <2>4, <2>5, <1>3 DEF Mounted
<1>13. CASE WalkEnd
  <2>1. /\ active = newest /\ activeSerial = serial[newest]
        /\ count = Age(oldest, newest) + 1 /\ count <= length
        /\ count \in 0..IndexSectors
        /\ pc' = IF count < IndexSectors THEN "up" ELSE "finish"
        /\ UNCHANGED media /\ i' = 0 /\ oldest' = oldest /\ count' = count
        /\ active' = active /\ activeSerial' = activeSerial
    BY <1>13 DEF WalkEnd, Scanning, TypeOK
  <2>2. count = length
    <3> SUFFICES ASSUME count < length PROVE FALSE
      BY <2>1, <1>0
    <3>1. oldest # NextSector(newest) /\ count < IndexSectors
          /\ Age(oldest, newest) < length /\ Age(oldest, newest) + 1 < length
      BY <2>1, <1>0, <1>1
    <3>2. /\ PrevSector(oldest) \in Sectors
          /\ Age(PrevSector(oldest), newest) = Age(oldest, newest) + 1
      BY <3>1, <1>0, AgeType, AgeStep
    <3>3. hdr[PrevSector(oldest)] = "valid" /\ hdr[oldest] = "valid"
      BY <3>1, <3>2, <1>0 DEF Shape
    <3>4. /\ serial[PrevSector(oldest)] =
               SerialBack(serial[newest], Age(oldest, newest) + 1)
          /\ serial[oldest] = SerialBack(serial[newest], Age(oldest, newest))
      <4>1. /\ serial[PrevSector(oldest)] =
                 SerialBack(serial[newest], Age(PrevSector(oldest), newest))
            /\ serial[oldest] =
                 SerialBack(serial[newest], Age(oldest, newest))
        BY <3>2, <3>3, <1>0 DEF Shape
      <4> QED BY <4>1, <3>2
    <3>5. Age(oldest, newest) \in 0..14
      BY <1>0, <1>1
    <3>6. serial[PrevSector(oldest)] = PrevSerial(serial[oldest])
      BY <3>4, <3>5, <1>0, SerialArith
    <3> QED BY <3>1, <3>3, <3>6, <1>13 DEF WalkEnd, Continues
  <2>3. TypeOK'
    BY <2>1, <1>0 DEF TypeOK, media
  <2>4. /\ active' = newest' /\ activeSerial' = serial'[newest']
        /\ count' = length' /\ Age(oldest', newest') = length' - 1
        /\ length' = length
    BY <2>1, <2>2, <1>0, <1>1 DEF media
  <2>5. Mounted'
    <3>1. CASE count < IndexSectors
      <4>1. length' <= IndexSectors - 1 /\ pc' = "up"
        BY <3>1, <2>1, <2>2, <2>4, <1>0
      <4> QED BY <4>1, <2>4 DEF Mounted
    <3>2. CASE count = IndexSectors
      <4>1. ~(count < IndexSectors) /\ count' = count
        BY <3>2, <2>1, <1>0
      <4>2. pc' = "finish"
        BY <4>1, <2>1
      <4>3. count' = IndexSectors /\ length' = IndexSectors
        BY <3>2, <4>1, <2>4
      <4> QED BY <4>2, <4>3, <2>4 DEF Mounted
    <3> QED BY <3>1, <3>2, <2>1, <1>0
  <2>6. Scanning'
    BY <2>1 DEF Scanning
  <2> QED BY <2>1, <2>3, <2>5, <2>6, <1>3
<1>14. CASE UNCHANGED vars
  BY <1>14 DEF vars, TypeOK, Shape, Mounted, Scanning
<1> QED
  BY <1>4, <1>5, <1>6, <1>7, <1>8, <1>8a, <1>9, <1>10, <1>10a, <1>11, <1>12, <1>13, <1>14
  DEF Next

\* Sector numbers, serials and counts never leave their ranges.
THEOREM TypeCorrect ==
  ASSUME IndexSectors <= 9, TornEraseSerials = {}
  PROVE  Spec => []TypeOK
<1>1. IInv => TypeOK
  BY DEF IInv
<1> QED BY <1>1, InitIInv, NextIInv, PTL DEF Spec

\* fffs_find_index_sequence is right for up to nine index sectors: mount and
\* every rotation after it use the newest committed sector and the whole
\* sequence behind it.  (With ten or more it is not: see the runs.)
THEOREM DiscoveryCorrect ==
  ASSUME IndexSectors <= 9, TornEraseSerials = {}
  PROVE  Spec => []SequenceFound
<1>1. IInv => SequenceFound
  BY DEF IInv, Mounted, SequenceFound
<1> QED BY <1>1, InitIInv, NextIInv, PTL DEF Spec

\* Probing sectors 0 and 1 only is enough: one of them is always valid.
THEOREM ProbeSucceeds ==
  ASSUME IndexSectors <= 9, TornEraseSerials = {}
  PROVE  Spec => []AlwaysDiscoverable
<1>1. IInv => AlwaysDiscoverable
  BY IndexSectorsAssumption
  DEF IInv, TypeOK, Shape, Sectors, Age, AlwaysDiscoverable
<1> QED BY <1>1, InitIInv, NextIInv, PTL DEF Spec

=============================================================================
