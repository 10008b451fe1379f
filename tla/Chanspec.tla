------------------------------ MODULE Chanspec ------------------------------
(***************************************************************************)
(* The channel specifications of bcmwifi_channels.c (the D11AC_IOTYPES     *)
(* layout that bcmwifi_channels.h selects).  The 16-bit chanspec_t is the  *)
(* record of its four fields: band, bandwidth, control side band and       *)
(* channel (the centre channel, or for 80+80 the pair of 80 MHz indices).  *)
(* A chanspec string is the record of the parts wf_chspec_aton reads from  *)
(* it; g = 0 is the string without a band.  0, the functions' error value, *)
(* is None; a bandwidth of 0 is the field's reserved code.                 *)
(***************************************************************************)
EXTENDS Integers, Sequences, FiniteSets

None == [band |-> 0, bw |-> 0, sb |-> 0, ch |-> 0]

MAXCHANNEL == 224
CH_MAX_2G_CHANNEL == 14
uint8(n) == n % 256

wf_5g_40m_chans == <<38, 46, 54, 62, 102, 110, 118, 126, 134, 142, 151, 159>>
wf_5g_80m_chans == <<42, 58, 106, 122, 138, 155>>
wf_5g_160m_chans == <<50, 114>>
wf_5g_chans(bw) ==
    CASE bw = 40 -> wf_5g_40m_chans [] bw = 80 -> wf_5g_80m_chans
      [] bw = 160 -> wf_5g_160m_chans [] OTHER -> <<>>

\* The unsigned bw - 20 of the reserved code wraps: uint8(((2^32 - 20) / 2) / 5).
center_chan_to_edge(bw) == IF bw = 0 THEN 151 ELSE ((bw - 20) \div 2) \div 5
channel_low_edge(center, bw) == uint8(center - center_chan_to_edge(bw))

\* One channel too many on the upper edge.
channel_to_sb_edge(center, ctl, bw) ==
    LET off == ctl - channel_low_edge(center, bw)
    IN  IF off % 4 = 0 /\ off >= 0 /\ off \div 4 <= bw \div 20 THEN off \div 4 ELSE -1

\* The side band of a control channel, -1 when it is not one of the 20 MHz
\* channels of that centre.  The C difference is unsigned: a control channel
\* below the lowest wraps to an index far out of range.
channel_to_sb(center, ctl, bw) ==
    LET off == ctl - channel_low_edge(center, bw)
    IN  IF off % 4 = 0 /\ off >= 0 /\ off \div 4 < bw \div 20 THEN off \div 4 ELSE -1

channel_to_ctl_chan(center, bw, sb) == uint8(channel_low_edge(center, bw) + sb * 4)

LOWER_20_SB(ch) == IF ch > 2 THEN ch - 2 ELSE 0
UPPER_20_SB(ch) == IF ch < MAXCHANNEL - 2 THEN ch + 2 ELSE 0

\* The first centre of the table that has the control channel in it.
center_of(ctl, bw) ==
    {i \in DOMAIN wf_5g_chans(bw) :
        /\ channel_to_sb(wf_5g_chans(bw)[i], ctl, bw) >= 0
        /\ \A j \in 1 .. i - 1 : channel_to_sb(wf_5g_chans(bw)[j], ctl, bw) < 0}

channel_80mhz_to_id(ch) == {i \in DOMAIN wf_5g_80m_chans : wf_5g_80m_chans[i] = ch}

\* 8080 stands for WL_CHANSPEC_BW_8080; ch is then a pair of indices from 1.
Max_sb(bw) == CASE bw = 20 -> 0 [] bw = 40 -> 1 [] bw = 80 -> 3 [] OTHER -> 7

wf_chspec_malformed(c) ==
    \/ c.band \notin {2, 5}
    \/ c.band = 2 /\ c.bw \notin {20, 40}
    \/ c.band = 5 /\ c.bw \notin {20, 40, 80, 160, 8080}
    \/ c.band = 5 /\ c.bw = 8080 /\ ~ (\A k \in 1 .. 2 : c.ch[k] \in DOMAIN wf_5g_80m_chans)
    \/ c.band = 5 /\ c.bw = 8080 /\ c.ch[2] <= c.ch[1]
    \/ c.band = 5 /\ c.bw # 8080 /\ c.ch > MAXCHANNEL
    \/ c.sb > Max_sb(c.bw)

wf_chspec_valid(c) ==
    /\ ~ wf_chspec_malformed(c)
    /\ \/ c.band = 2 /\ c.bw = 20 /\ c.ch \in 1 .. 14
       \/ c.band = 2 /\ c.bw = 40 /\ c.ch \in 3 .. 11
       \/ c.band = 5 /\ c.bw = 8080
          /\ wf_5g_80m_chans[c.ch[2]] > wf_5g_80m_chans[c.ch[1]] + 16
       \/ /\ c.band = 5 /\ c.bw = 20
          /\ \/ c.ch \in {34, 38, 42, 46}
             \/ \E i \in DOMAIN wf_5g_40m_chans :
                  c.ch \in {LOWER_20_SB(wf_5g_40m_chans[i]), UPPER_20_SB(wf_5g_40m_chans[i])}
       \/ /\ c.band = 5 /\ c.bw \in {40, 80, 160}
          /\ \E i \in DOMAIN wf_5g_chans(c.bw) : c.ch = wf_5g_chans(c.bw)[i]

wf_chspec_ctlchan(c) ==
    CASE c.bw = 20 -> c.ch
      [] c.bw = 8080 -> channel_to_ctl_chan(wf_5g_80m_chans[c.ch[1 + c.sb \div 4]], 80, c.sb % 4)
      [] OTHER -> channel_to_ctl_chan(c.ch, c.bw, c.sb)

wf_chspec_ctlchspec(c) ==
    IF c.bw = 20 THEN c ELSE [band |-> c.band, bw |-> 20, sb |-> 0, ch |-> wf_chspec_ctlchan(c)]

\* The primary 40 MHz half of an 80 MHz channel.
wf_chspec_primary40_chspec(c) ==
    IF c.bw # 80 THEN c
    ELSE [band |-> 5, bw |-> 40, sb |-> c.sb % 2, ch |-> IF c.sb >= 2 THEN c.ch + 4 ELSE c.ch - 4]

default_band(ch) == IF ch <= CH_MAX_2G_CHANNEL THEN 2 ELSE 5

wf_channel2chspec(ctl, bw) ==
    IF bw = 20 THEN [band |-> default_band(ctl), bw |-> 20, sb |-> 0, ch |-> ctl]
    ELSE IF center_of(ctl, bw) = {} THEN None
    ELSE LET c == wf_5g_chans(bw)[CHOOSE i \in center_of(ctl, bw) : TRUE]
         IN  [band |-> default_band(ctl), bw |-> bw, sb |-> channel_to_sb(c, ctl, bw), ch |-> c]

(***************************************************************************)
(* Strings: [g, ch, tail, pair].  tail is what follows the channel number: *)
(* the end ("end"), "u", "l", "/20", "/40", "/40u", "/40l", "/80", "/160"  *)
(* or "/80+80" with its pair of centres.                                   *)
(*                                                                         *)
(* wf_chspec_aton compares what follows the plus sign with the text "80/"  *)
(* through a static pointer that it advances and never sets back.  met is  *)
(* how many 80+80 strings the process has compared before: the first one   *)
(* is read, the second meets the end of the text and is refused.  (A third *)
(* would be compared with what lies behind it.)                            *)
(***************************************************************************)
wf_chspec_ntoa(c) ==
    [g |-> IF (c.bw # 8080) /\ c.band # default_band(c.ch) THEN c.band ELSE 0,
     ch |-> wf_chspec_ctlchan(c),
     tail |-> CASE c.bw = 20 -> "end" [] c.bw = 40 -> (IF c.sb = 1 THEN "u" ELSE "l")
                [] c.bw = 80 -> "/80" [] c.bw = 160 -> "/160" [] OTHER -> "/80+80",
     pair |-> IF c.bw = 8080 THEN <<wf_5g_80m_chans[c.ch[1]], wf_5g_80m_chans[c.ch[2]]>>
              ELSE <<0, 0>>]

\* What the parts of the string make, before the final check.  A side band
\* letter after a bandwidth is read only for 40 MHz in the 2.4 GHz band.
parts_to_chspec(s, band, met) ==
    LET spec(bw, sb, ch) == [band |-> band, bw |-> bw, sb |-> sb, ch |-> ch]
        wide(bw) ==
            IF center_of(s.ch, bw) = {} THEN None
            ELSE LET c == wf_5g_chans(bw)[CHOOSE i \in center_of(s.ch, bw) : TRUE]
                 IN  spec(bw, channel_to_sb(c, s.ch, bw), c)
        id(k) == CHOOSE i \in channel_80mhz_to_id(s.pair[k]) : TRUE
        sb80(k) == channel_to_sb(s.pair[k], s.ch, 80)
    IN  CASE s.tail \in {"end", "/20"} -> spec(20, 0, s.ch)
          [] s.tail = "u" \/ (s.tail = "/40u" /\ band = 2) -> spec(40, 1, LOWER_20_SB(s.ch))
          [] s.tail = "l" \/ (s.tail = "/40l" /\ band = 2) -> spec(40, 0, UPPER_20_SB(s.ch))
          [] s.tail = "/40" -> wide(40)
          [] s.tail = "/80" -> wide(80)
          [] s.tail = "/160" -> wide(160)
          [] s.tail = "/80+80" /\ met = 0 /\ s.pair[1] < s.pair[2]
             /\ (\A k \in 1 .. 2 : channel_80mhz_to_id(s.pair[k]) # {})
             /\ (\E k \in 1 .. 2 : sb80(k) >= 0) ->
                spec(8080, IF sb80(1) >= 0 THEN sb80(1) ELSE sb80(2) + 4, <<id(1), id(2)>>)
          [] OTHER -> None

wf_chspec_aton(s, met) ==
    IF s.g \notin {0, 2, 5} THEN None
    ELSE LET c == parts_to_chspec(s, IF s.g = 0 THEN default_band(s.ch) ELSE s.g, met)
         IN  IF wf_chspec_malformed(c) THEN None ELSE c

(***************************************************************************)
(* Frequencies.  A base is given in units of 500 kHz.                      *)
(***************************************************************************)
CHAN_FACTOR_2_4_G == 4814
CHAN_FACTOR_5_G == 10000

wf_channel2mhz(ch, factor) ==
    CASE ch > 200 \/ (factor = CHAN_FACTOR_2_4_G /\ ch \notin 1 .. 14) -> -1
      [] factor = CHAN_FACTOR_2_4_G /\ ch = 14 -> 2484
      [] OTHER -> ch * 5 + factor \div 2

\* The base of a frequency when none is given.
start_factor(freq, factor) ==
    IF factor # 0 THEN factor
    ELSE IF freq \in 2400 .. 2500 THEN CHAN_FACTOR_2_4_G
    ELSE IF freq \in 5000 .. 6000 THEN CHAN_FACTOR_5_G ELSE 0

wf_mhz2channel(freq, factor) ==
    LET f == start_factor(freq, factor)
        off == freq - f \div 2
    IN  IF f = CHAN_FACTOR_2_4_G /\ freq = 2484 THEN 14
        ELSE IF off \in 0 .. 1000 /\ off % 5 = 0
                /\ (f = CHAN_FACTOR_2_4_G => off \div 5 \in 1 .. 13) THEN off \div 5 ELSE -1
=============================================================================
