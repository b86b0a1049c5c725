-------------------------------- MODULE Wspr --------------------------------
(***************************************************************************)
(* A WSPR transmission: the channels of src/src/WSPR/WSPR.h, the encoding  *)
(* of a message as 162 tones of WSPREncoder.h, and the transmitter of      *)
(* WSPRMessageTransmitter.h, which changes the frequency of a radio, one   *)
(* symbol after the other; the radio and the air are external.  When a     *)
(* symbol begins is not modelled.  A receiver (Decode) undoes the encoding *)
(* step by step, by the definition of the code.                            *)
(*                                                                         *)
(* Characters are their codes.  A frequency in hundredths of Hz has 32     *)
(* bits: it is a pair of Hz and the hundredths over them, after the wrap.  *)
(***************************************************************************)
EXTENDS Integers, Sequences, FiniteSetsExt

CONSTANTS
  Bands,         \* that the program sends in
  Channels,      \* and the channels in them
  Messages       \* records of callsign, grid and powerDbm

VARIABLES
  frequency_,    \* in Hz
  message,       \* that is being sent
  tones,         \* bfToneNumList_
  heard          \* frequencies that were on the air, a symbol each

wsprVars == <<frequency_, message, tones, heard>>

-----------------------------------------------------------------------------
(* WSPR: bands and channels.                                               *)

bandDataList_ ==
  << [band |-> "2190m", freq |-> 136000],    [band |-> "630m", freq |-> 474200],
     [band |-> "160m", freq |-> 1836600],    [band |-> "80m", freq |-> 3568600],
     [band |-> "60m", freq |-> 5287200],     [band |-> "40m", freq |-> 7038600],
     [band |-> "30m", freq |-> 10138700],    [band |-> "20m", freq |-> 14095600],
     [band |-> "17m", freq |-> 18104600],    [band |-> "15m", freq |-> 21094600],
     [band |-> "12m", freq |-> 24924600],    [band |-> "10m", freq |-> 28124600],
     [band |-> "6m", freq |-> 50293000],     [band |-> "4m", freq |-> 70091000],
     [band |-> "2m", freq |-> 144489000],    [band |-> "70cm", freq |-> 432300000],
     [band |-> "23cm", freq |-> 1296500000] >>

GetDialFreqFromBandStr(band) ==
  LET valid == IF \E i \in DOMAIN bandDataList_ : bandDataList_[i].band = band THEN band ELSE "20m"
      first == CHOOSE i \in DOMAIN bandDataList_ : bandDataList_[i].band = valid
  IN  bandDataList_[first].freq

(* The band of 200 Hz has five parts of 40, of which the middle one is not *)
(* used.  A row of the table is a part and a minute, the five of which are *)
(* rotated by band; a column is two characters of the callsign.            *)
freqBandList == <<1, 2, 4, 5>>
id1List == <<"0", "1", "Q">>

ChannelOf(part, minute, id1, id3) == 200 * (id1 - 1) + 20 * id3 + 5 * (part - 1) + minute

GetChannelDetails(band, channelIn) ==
  LET channel == IF channelIn \in 0 .. 599 THEN channelIn ELSE 0
      place == CHOOSE p \in (1 .. 4) \X (0 .. 4) \X (1 .. 3) \X (0 .. 9) :
                 ChannelOf(p[1], p[2], p[3], p[4]) = channel
  IN  [lane |-> place[1], minute |-> place[2], id1 |-> id1List[place[3]], id3 |-> place[4],
       freq |-> GetDialFreqFromBandStr(band) + 1500 - 100
                  + (freqBandList[place[1]] - 1) * 40 + 20]

-----------------------------------------------------------------------------
(* WSPREncoder.                                                            *)

Digits == 48 .. 57
Capitals == 65 .. 90
Blank == 32

isdigit(ch) == ch \in Digits
isalpha(ch) == ch \in Capitals \cup (97 .. 122)
toupper(ch) == IF ch \in 97 .. 122 THEN ch - 32 ELSE ch

chval1(ch) ==
  IF isdigit(ch) THEN ch - 48
  ELSE IF isalpha(ch) THEN 10 + toupper(ch) - 65
  ELSE IF ch = Blank THEN 36 ELSE 0

chval2(ch) ==
  IF isalpha(ch) THEN toupper(ch) - 65 ELSE IF ch = Blank THEN 26 ELSE 0

DigitAt(callsign, i) == i <= Len(callsign) /\ isdigit(callsign[i])

(* Mutant: the digit is left in the second place.                          *)
encodecallsignAsItIs(callsign) ==
  LET call == callsign \o <<Blank, Blank, Blank>>
      c(i) == chval1(call[i])
      s(i) == chval2(call[i])
  IN  ((((c(1) * 36 + c(2)) * 10 + c(3)) * 27 + s(4)) * 27 + s(5)) * 27 + s(6)

(* The digit is the third character: a blank comes before it if need be.   *)
encodecallsign(callsign) ==
  LET call == (IF DigitAt(callsign, 2) /\ ~DigitAt(callsign, 3) THEN <<Blank>> ELSE <<>>)
                \o callsign \o <<Blank, Blank, Blank>>
      c(i) == chval1(call[i])
      s(i) == chval2(call[i])
  IN  IF DigitAt(callsign, 2) \/ DigitAt(callsign, 3)
      THEN ((((c(1) * 36 + c(2)) * 10 + c(3)) * 27 + s(4)) * 27 + s(5)) * 27 + s(6)
      ELSE 0

encodegrid(grid) ==
  (179 - 10 * (grid[1] - 65) - (grid[3] - 48)) * 180 + 10 * (grid[2] - 65) + grid[4] - 48

encodepower(p) == p + 64

(* SetBitRangeAt: the highest bit first.                                   *)
BitRange(n, bitCount) == [i \in 1 .. bitCount |-> (n \div 2^(bitCount - i)) % 2]

MessageBits(m) ==
  BitRange(encodecallsign(m.callsign), 28) \o BitRange(encodegrid(m.grid), 15)
    \o BitRange(encodepower(m.powerDbm), 7)

(* The bits of 0xf2d05351 and 0xe4613c47, of which acc has the latest bit  *)
(* of the message in place 0.                                              *)
Taps == << {0, 4, 6, 8, 9, 12, 14, 20, 22, 23, 25, 28, 29, 30, 31},
           {0, 1, 2, 6, 10, 11, 12, 13, 16, 21, 22, 26, 29, 30, 31} >>

parity(bits, i, taps) ==
  Cardinality({t \in taps : i - t \in DOMAIN bits /\ bits[i - t] = 1}) % 2

Reversed(j) ==
  128 * (j % 2) + 64 * ((j \div 2) % 2) + 32 * ((j \div 4) % 2) + 16 * ((j \div 8) % 2)
    + 8 * ((j \div 16) % 2) + 4 * ((j \div 32) % 2) + 2 * ((j \div 64) % 2) + ((j \div 128) % 2)

(* Indices with their bits reversed, those that are below 162, in turn: as *)
(* many as are counted up to an index.                                     *)
CountedUpTo == [j \in 0 .. 254 |-> Cardinality({i \in 0 .. j : Reversed(i) < 162})]
GetRdx ==
  [n \in 1 .. 162 |-> Reversed(CHOOSE j \in 0 .. 254 : Reversed(j) < 162 /\ CountedUpTo[j] = n)]

syncBitList_ ==
  << 192, 142, 37, 224, 37, 2, 205, 26, 26, 169, 44, 106, 32, 147, 179, 71, 5, 48, 26, 198, 0 >>
SyncBit(i) == BitRange(syncBitList_[i \div 8 + 1], 8)[(i % 8) + 1]

(* The tones, whose index begins at 0.                                     *)
EncodeTones(bits) ==
  LET tail == bits \o [i \in 1 .. 31 |-> 0]
      coded(n) == parity(tail, (n + 1) \div 2, IF n % 2 = 1 THEN Taps[1] ELSE Taps[2])
      place == GetRdx
  IN  [i \in 0 .. 161 |->
         SyncBit(i) + 2 * coded(CHOOSE n \in 1 .. 162 : place[n] = i)]

EncodeType1(m) == EncodeTones(MessageBits(m))

(* A callsign has a digit in the third place or the second, and up to      *)
(* three letters after it: with more, or others, the code does not fail    *)
(* but sends another one.  A grid is two letters up to R and two digits.   *)
Standard(m) ==
  /\ m \in [callsign : Seq(Digits \cup Capitals), grid : Seq(Digits \cup (65 .. 82)),
            powerDbm : 0 .. 63]
  /\ \E d \in {2, 3} :
       /\ Len(m.callsign) \in d .. d + 3 /\ isdigit(m.callsign[d])
       /\ \A i \in d + 1 .. Len(m.callsign) : m.callsign[i] \in Capitals
  /\ Len(m.grid) = 4
  /\ \A i \in 1 .. 2 : m.grid[i] \in 65 .. 82 /\ m.grid[i + 2] \in Digits

ASSUME MessagesAssumption == \A m \in Messages : Standard(m)

-----------------------------------------------------------------------------
(* WSPRMessageTransmitter.                                                 *)

WordHz == 42949672    \* 2^32 hundredths of Hz are these
WordRest == 96        \* and as many hundredths

(* frequency_ * 100 + tone * 146 - 2 * 146 in 32 bits.                     *)
Hundredths(hz, tone) ==
  LET rest == 146 * (tone - 2)
      whole == hz + rest \div 100
      Words(q) == q * WordHz + (q * WordRest) \div 100
      q == CHOOSE n \in 0 .. 30 : Words(n) <= whole /\ whole < Words(n + 1)
      left == (rest % 100) - ((q * WordRest) % 100)
  IN  IF left < 0 THEN <<whole - Words(q) - 1, left + 100>> ELSE <<whole - Words(q), left>>

NoMessage == [callsign |-> <<>>, grid |-> <<>>, powerDbm |-> 0]

WsprInit ==
  /\ frequency_ = 14097060
  /\ message = NoMessage /\ tones = <<>> /\ heard = <<>>

SetFrequency(band, channel) ==
  /\ message = NoMessage
  /\ frequency_' = GetChannelDetails(band, channel).freq
  /\ UNCHANGED <<message, tones, heard>>

SendMessage(m) ==
  /\ message = NoMessage
  /\ message' = m /\ tones' = EncodeType1(m) /\ heard' = <<>>
  /\ UNCHANGED frequency_

Sending == message # NoMessage

SendSymbol ==
  /\ Sending /\ Len(heard) < 162
  /\ heard' = Append(heard, Hundredths(frequency_, tones[Len(heard)]))
  /\ UNCHANGED <<frequency_, message, tones>>

(* After the last symbol, or as fnQuitEarly_ says so, before any.          *)
SendReturns ==
  /\ Sending
  /\ message' = NoMessage /\ tones' = <<>> /\ heard' = <<>>
  /\ UNCHANGED frequency_

WsprNext ==
  \/ \E band \in Bands, channel \in Channels : SetFrequency(band, channel)
  \/ \E m \in Messages : SendMessage(m)
  \/ SendSymbol
  \/ SendReturns

WsprSpec == WsprInit /\ [][WsprNext]_wsprVars

-----------------------------------------------------------------------------
(* The receiver: the tone of a frequency, its place undone, one bit of the *)
(* message after the other from the first of each two parities.            *)
OnAir(tone) == <<frequency_ + (146 * (tone - 2)) \div 100, (146 * (tone - 2)) % 100>>

ToneHeard(f) ==
  IF \E tone \in 0 .. 3 : f = OnAir(tone) THEN CHOOSE tone \in 0 .. 3 : f = OnAir(tone) ELSE 4

(* The next bit, from those before it and what they make of the first.     *)
NextBit(bits, code) == Append(bits, (code + parity(bits, Len(bits) + 1, Taps[1])) % 2)

BitsHeard ==
  LET coded == [n \in 1 .. 162 |-> ToneHeard(heard[GetRdx[n] + 1]) \div 2]
      bits[i \in 0 .. 81] ==
        IF i = 0 THEN <<>> ELSE NextBit(bits[i - 1], coded[2 * i - 1])
  IN  bits[81]

NumberOf(bits) ==
  LET number[i \in 0 .. Len(bits)] == IF i = 0 THEN 0 ELSE 2 * number[i - 1] + bits[i]
  IN  number[Len(bits)]

Char1(value) ==
  IF value < 10 THEN 48 + value ELSE IF value < 36 THEN 55 + value ELSE Blank
Char2(value) == IF value < 26 THEN 65 + value ELSE Blank

CallsignHeard(n) ==
  LET rest == n \div 19683
      call == <<Char1(rest \div 360), Char1((rest \div 10) % 36), Char1(rest % 10),
                Char2((n \div 729) % 27), Char2((n \div 27) % 27), Char2(n % 27)>>
      used == {i \in 1 .. 6 : call[i] # Blank}
  IN  SubSeq(call, Min(used), Max(used))

GridHeard(n) ==
  LET east == n % 180
      north == 179 - n \div 180
  IN  <<65 + north \div 10, 65 + east \div 10, 48 + (north % 10), 48 + (east % 10)>>

Decode ==
  [callsign |-> CallsignHeard(NumberOf(SubSeq(BitsHeard, 1, 28))),
   grid |-> GridHeard(NumberOf(SubSeq(BitsHeard, 29, 43))),
   powerDbm |-> NumberOf(SubSeq(BitsHeard, 44, 50)) - 64]

(* What was sent to its end is heard on the frequency of its channel, with *)
(* the pattern receivers find it by, and is the message.                   *)
HeardAsSent ==
  Len(heard) = 162 =>
    /\ Decode = message
    /\ \A i \in 1 .. 162 : ToneHeard(heard[i]) % 2 = SyncBit(i - 1)

=============================================================================
