---------------------------- MODULE DisplayDriver ----------------------------
(***************************************************************************)
(* SD1306Driver (src/src/drivers/display_driver/mod.rs): where each screen *)
(* puts its texts.  A text is its number of characters and the pixel its   *)
(* first one begins at; FONT_6X10 has one width and one height.            *)
(***************************************************************************)
EXTENDS BatteryCharger, FiniteSetsExt

CONSTANTS SsidChars,      \* characters of WIFI_SSID
          VersionChars    \* characters of the version label, "v0.5.0"

ASSUME LabelAssumption == SsidChars \in Nat /\ VersionChars \in Nat

DisplayWidth == 128
CharWidth    == 6
CharHeight   == 10
LineHeight   == 11
Margin       == 4

PageTitleTop == 3
PageRows     == <<19, 30, 41, 52>>
PageValueX   == 40
DeviceIdLen  == 6
NoReading    == 2     \* "--"

ScreenBodyTop    == 19
ScreenBodyBottom == 61
MessageMaxChars  == 20
MessageMaxLines  == 3
ProgressBar      == [left |-> 12, right |-> 116, top |-> 34, bottom |-> 48]

NonNegative(n) == IF n < 0 THEN 0 ELSE n
Least(m, n)    == IF m < n THEN m ELSE n

Text(name, chars, x, y) == [name |-> name, chars |-> chars, x |-> x, y |-> y]

Right(text)  == text.x + text.chars * CharWidth
Bottom(text) == text.y + CharHeight

CenteredX(chars)     == NonNegative((DisplayWidth - chars * CharWidth) \div 2)
RightAlignedX(chars) == NonNegative(DisplayWidth - Margin - chars * CharWidth)
ClipToRow(chars, x)  == Least(chars, NonNegative(DisplayWidth - Margin - x) \div CharWidth)

Centered(name, chars, y) == Text(name, chars, CenteredX(chars), y)

LabelRow(y, label, value) ==
    {Text("label", label, Margin, y),
     Text("value", ClipToRow(value, PageValueX), PageValueX, y)}

SplitRow(y, left, right) ==
    {Text("left", left, Margin, y), Text("right", right, RightAlignedX(right), y)}

PageFrame(title, annotation) == SplitRow(PageTitleTop, title, annotation)

-----------------------------------------------------------------------------
(* Conversions, by the number of characters they come to *)

Digits(n) == IF n < 10 THEN 1 ELSE IF n < 100 THEN 2 ELSE IF n < 1000 THEN 3 ELSE 4

\* "8.12V" and "0.45A".
Format(milli) == Digits(milli \div 1000) + 4

\* Bug: tenths of a degree are shown as degrees.
BugDegrees(dc) == IF dc < 0 THEN 1 + Digits(-dc) ELSE Digits(dc)

\* Whole degrees, truncated toward zero.
Degrees(dc) == IF dc <= -10 THEN 1 + Digits((-dc) \div 10)
               ELSE IF dc < 0 THEN 1 ELSE Digits(dc \div 10)

AddressChars(ip) == Digits(ip[1]) + Digits(ip[2]) + Digits(ip[3]) + Digits(ip[4]) + 3

\* OtaStatus::percent while the size is known; u64 holds the product.
Percent(written, total) == Least((written * 100) \div total, 100)

FillWidth(percent) == (100 * percent) \div 100

-----------------------------------------------------------------------------
(* The pages *)

\* A latched fault first, then the pack's temperature, then an unusable input.
HealthChars(s) ==
    CASE s.fault # None                              -> FaultChars[s.fault]
      [] s.fault = None /\ s.thermistor # "Normal"   -> ThermistorChars[s.thermistor]
      [] OTHER -> IF InputUnusable(s) THEN 8 ELSE 2

\* The version shares the row of the device's name.
NetworkPage(ip, broker) ==
    PageFrame(7, IF ip = None THEN 7 ELSE 6)
    \cup LabelRow(PageRows[1], 4, SsidChars)
    \cup LabelRow(PageRows[2], 2, IF ip = None THEN 15 ELSE AddressChars(ip))
    \cup LabelRow(PageRows[3], 4, IF broker = "Connected" THEN 6 ELSE 7)
    \cup LabelRow(PageRows[4], 2, DeviceIdLen)
    \cup {Text("version", VersionChars, RightAlignedX(VersionChars), PageRows[4])}

BatteryPage(s) ==
    IF s = None
    THEN PageFrame(7, NoReading)
         \cup {Centered("line", 15, PageRows[2])}
         \cup SplitRow(PageRows[4], 0, VersionChars)
    ELSE PageFrame(5 + Digits(StateOfCharge(s.vbat_mv, s.cell_top_mv, s.cell_bot_mv)),
                   StateChars[s.state])
         \cup SplitRow(PageRows[1], 5 + Format(s.vbat_mv), Format(s.charge_current_ma))
         \cup LabelRow(PageRows[2], 4, Format(s.cell_top_mv) + Format(s.cell_bot_mv))
         \cup (IF InputPresent(s)
               THEN SplitRow(PageRows[3], 5 + Format(s.vbus_mv), Format(s.input_current_ma))
               ELSE SplitRow(PageRows[3], 5 + NoReading, 0))
         \cup SplitRow(PageRows[4], Degrees(s.die_temp_dc) + 2 + HealthChars(s), VersionChars)

-----------------------------------------------------------------------------
(* Full screens.  A message is the lengths of its words. *)

\* The characters of the first n words and the spaces between them.
CharsTo(words) ==
    LET to[n \in 0..Len(words)] == IF n = 0 THEN 0
                                   ELSE IF n = 1 THEN words[1]
                                   ELSE to[n - 1] + 1 + words[n]
    IN  to

Chars(words) == CharsTo(words)[Len(words)]

\* Words whose following space is among the first twenty characters.
Fitting(words) == {n \in 1..Len(words) - 1 : CharsTo(words)[n] < MessageMaxChars}

\* The line that is split off, in characters, and the words that remain.
SplitOff(words) ==
    IF Chars(words) <= MessageMaxChars
    THEN [line |-> Chars(words), rest |-> <<>>]
    ELSE IF Fitting(words) # {}
    THEN LET n == Max(Fitting(words))
         IN  [line |-> CharsTo(words)[n], rest |-> SubSeq(words, n + 1, Len(words))]
    ELSE [line |-> MessageMaxChars,
          rest |-> IF words[1] = MessageMaxChars THEN Tail(words)
                   ELSE <<words[1] - MessageMaxChars>> \o Tail(words)]

AfterLine(words) == IF words = <<>> THEN <<>> ELSE SplitOff(words).rest

\* The words left after n lines.
Remaining(words) ==
    LET rest[n \in 0..MessageMaxLines] == IF n = 0 THEN words ELSE AfterLine(rest[n - 1])
    IN  rest

WrapMessage(words) ==
    LET rest == Remaining(words)
        lines == {n \in 1..MessageMaxLines : rest[n - 1] # <<>>}
    IN  [n \in lines |-> SplitOff(rest[n - 1]).line]

\* With a percentage only the first line of the message has room.
Screen(title, words, percent) ==
    LET lines == WrapMessage(words)
        block == Len(lines) * LineHeight
        top   == ScreenBodyTop
                 + NonNegative((ScreenBodyBottom - ScreenBodyTop - block) \div 2)
    IN  {Centered("title", title, PageTitleTop)}
        \cup IF percent = None
             THEN {Centered("line", lines[n], top + (n - 1) * LineHeight) : n \in DOMAIN lines}
             ELSE {Centered("line", lines[1], ScreenBodyTop),
                   Centered("figure", Digits(Least(percent, 100)) + 1,
                            ScreenBodyBottom - LineHeight)}

\* Everything the message says has a line of its own on the panel.
IsWhole(words, percent) ==
    Remaining(words)[IF percent = None THEN MessageMaxLines ELSE 1] = <<>>

-----------------------------------------------------------------------------
(* Legibility *)

Apart(a, b) == \/ Right(a) <= b.x \/ Right(b) <= a.x
               \/ Bottom(a) <= b.y \/ Bottom(b) <= a.y

InFrame(text) == /\ 1 <= text.x /\ Right(text) <= DisplayWidth - 1
                 /\ 1 <= text.y /\ Bottom(text) <= 63

\* Texts keep off each other, off the frame and off the line under the title, which is
\* at 15 on a page and at 16 on a full screen.
Legible(texts, line) ==
    LET drawn == {text \in texts : text.chars > 0}
    IN  /\ \A text \in drawn : InFrame(text) /\ (Bottom(text) <= line \/ line < text.y)
        /\ \A a, b \in drawn : a # b => Apart(a, b)

\* The bar keeps off the texts, and its filling inside the bar.
BarFits(texts, percent) ==
    /\ \A text \in texts : Bottom(text) <= ProgressBar.top \/ ProgressBar.bottom <= text.y
    /\ ProgressBar.left + 2 + FillWidth(percent) <= ProgressBar.right - 2

=============================================================================
