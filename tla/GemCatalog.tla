----------------------------- MODULE GemCatalog -----------------------------
(***************************************************************************)
(* The message catalog of package gem (gem/catalog.go): the two forms of   *)
(* every message E5 defines, their directions and replies, and the replies *)
(* that accept a primary as a whole.                                       *)
(***************************************************************************)
EXTENDS GemBuilders1to5, GemBuilders6to13, GemBuilders14to19,
        GemDecoders1to5, GemDecoders6to13, GemDecoders14to19

\* Every builder and every decoder, by its name.
Builders ==
    BuildersS1F1to12 @@ BuildersS1F13to23 @@ BuildersS1F24 @@ BuildersS2F1to13
    @@ BuildersS2F14to25 @@ BuildersS2F26to37 @@ BuildersS2F38to48
    @@ BuildersS2F49to50 @@ BuildersS3F1to12 @@ BuildersS3F13to25
    @@ BuildersS3F26to36 @@ BuildersS4F1to19 @@ BuildersS4F20to33
    @@ BuildersS4F35to41 @@ BuildersS5F1to12 @@ BuildersS5F13to18
    @@ BuildersS6F1to12 @@ BuildersS6F13to24 @@ BuildersS6F25to30
    @@ BuildersS7F1to10 @@ BuildersS7F11to22 @@ BuildersS7F23to33
    @@ BuildersS7F34to43 @@ BuildersS7F44 @@ BuildersS8F1to4 @@ BuildersS9F1to13
    @@ BuildersS10F1to10 @@ BuildersS12F1to12 @@ BuildersS12F13to19
    @@ BuildersS13F1to12 @@ BuildersS13F13to16 @@ BuildersS14F1to10
    @@ BuildersS14F11to20 @@ BuildersS14F21to28 @@ BuildersS15F1to13
    @@ BuildersS15F14to24 @@ BuildersS15F25to35 @@ BuildersS15F36to47
    @@ BuildersS15F48to54 @@ BuildersS16F1to12 @@ BuildersS16F15to26
    @@ BuildersS16F27to30 @@ BuildersS17F1to11 @@ BuildersS17F12to14
    @@ BuildersS18F1to13 @@ BuildersS18F14to16 @@ BuildersS19F1to11
    @@ BuildersS19F12to20

Decoders ==
    DecodersS1F2to4 @@ DecodersS1F5to8 @@ DecodersS1F10to13 @@ DecodersS1F13to16
    @@ DecodersS1F18to21 @@ DecodersS1F22to24 @@ DecodersS2F1to4 @@ DecodersS2F5to9
    @@ DecodersS2F10to14 @@ DecodersS2F15to20 @@ DecodersS2F21to24
    @@ DecodersS2F25to28 @@ DecodersS2F29to32 @@ DecodersS2F33to36
    @@ DecodersS2F37to40 @@ DecodersS2F41to44 @@ DecodersS2F45to48
    @@ DecodersS2F49to50 @@ DecodersS3F2to5 @@ DecodersS3F6to9 @@ DecodersS3F10to13
    @@ DecodersS3F14to16 @@ DecodersS3F17to20 @@ DecodersS3F21to23
    @@ DecodersS3F24to26 @@ DecodersS3F27to29 @@ DecodersS3F30to32
    @@ DecodersS3F34to36 @@ DecodersS4F1to5 @@ DecodersS4F7to11 @@ DecodersS4F13to18
    @@ DecodersS4F19to21 @@ DecodersS4F22to25 @@ DecodersS4F26to27
    @@ DecodersS4F29to31 @@ DecodersS4F33to39 @@ DecodersS4F41 @@ DecodersS5F1to4
    @@ DecodersS5F5to9 @@ DecodersS5F11to14 @@ DecodersS5F15to17 @@ DecodersS5F18
    @@ DecodersS6F1to3 @@ DecodersS6F4to7 @@ DecodersS6F8to10 @@ DecodersS6F11to13
    @@ DecodersS6F14to17 @@ DecodersS6F18to21 @@ DecodersS6F22to24
    @@ DecodersS6F25to26 @@ DecodersS6F27to30 @@ DecodersS7F1to4 @@ DecodersS7F5to8
    @@ DecodersS7F10to13 @@ DecodersS7F14to18 @@ DecodersS7F20to23
    @@ DecodersS7F24to26 @@ DecodersS7F27to31 @@ DecodersS7F32to35
    @@ DecodersS7F36to39 @@ DecodersS7F40to44 @@ DecodersS8F2to4 @@ DecodersS9F1to7
    @@ DecodersS9F9to13 @@ DecodersS10F1to4 @@ DecodersS10F5to9 @@ DecodersS10F10
    @@ DecodersS12F1to2 @@ DecodersS12F3 @@ DecodersS12F4 @@ DecodersS12F5to7
    @@ DecodersS12F8to10 @@ DecodersS12F11to13 @@ DecodersS12F14to16
    @@ DecodersS12F17to19 @@ DecodersS13F1to3 @@ DecodersS13F4to6
    @@ DecodersS13F7to12 @@ DecodersS13F13to14 @@ DecodersS13F15to16
    @@ DecodersS14F1to2 @@ DecodersS14F3to5 @@ DecodersS14F6to8 @@ DecodersS14F9to11
    @@ DecodersS14F12to14 @@ DecodersS14F15to17 @@ DecodersS14F18to19
    @@ DecodersS14F20to21 @@ DecodersS14F22to25 @@ DecodersS14F26to28
    @@ DecodersS15F1to3 @@ DecodersS15F4to7 @@ DecodersS15F8to10
    @@ DecodersS15F11to12 @@ DecodersS15F13to15 @@ DecodersS15F16to18
    @@ DecodersS15F19to21 @@ DecodersS15F22to23 @@ DecodersS15F24to26
    @@ DecodersS15F27to28 @@ DecodersS15F29to31 @@ DecodersS15F32to34
    @@ DecodersS15F35to37 @@ DecodersS15F38to40 @@ DecodersS15F41to42
    @@ DecodersS15F43to45 @@ DecodersS15F46to48 @@ DecodersS15F49to52
    @@ DecodersS15F53 @@ DecodersS16F1to3 @@ DecodersS16F4to6 @@ DecodersS16F7to9
    @@ DecodersS16F11to12 @@ DecodersS16F15to17 @@ DecodersS16F18to23
    @@ DecodersS16F24to26 @@ DecodersS16F27to29 @@ DecodersS16F30
    @@ DecodersS17F1to3 @@ DecodersS17F4to5 @@ DecodersS17F6to8 @@ DecodersS17F9to11
    @@ DecodersS17F12to14 @@ DecodersS18F1to3 @@ DecodersS18F4to6
    @@ DecodersS18F7to9 @@ DecodersS18F10to12 @@ DecodersS18F13to15
    @@ DecodersS18F16 @@ DecodersS19F1to4 @@ DecodersS19F5to8 @@ DecodersS19F9to11
    @@ DecodersS19F13to16 @@ DecodersS19F17to20

-----------------------------------------------------------------------------

RoleHost == 1
RoleEquipment == 2

valid(r) == r \in {RoleHost, RoleEquipment}
peer(r) == IF r = RoleHost THEN RoleEquipment ELSE RoleHost

HostToEquipment == "host-to-equipment"
EquipmentToHost == "equipment-to-host"
Bidirectional == "both"

\* Whether sender may send a message of direction d.
allows(d, sender) ==
    CASE d = HostToEquipment -> sender = RoleHost
      [] d = EquipmentToHost -> sender = RoleEquipment
      [] d = Bidirectional -> valid(sender)

-----------------------------------------------------------------------------
(* The rows.  A message whose reply E5 defines expects it. *)

NoBody == Dec("none", SELF, 0, Byte, <<>>)
NoDecoder == "none"

TwoForms(f, d, replied, host, equipment) ==
    [function |-> f, direction |-> d, replyExpected |-> replied,
     replyFunction |-> IF replied THEN f + 1 ELSE 0, decode |-> <<host, equipment>>]
Primary(f, d, decode) == TwoForms(f, d, TRUE, decode, decode)
NoReply(f, d, decode) == TwoForms(f, d, FALSE, decode, decode)

\* The rows of one stream, by stream and function.
Rows(s, rows) ==
    [k \in {<<s, rows[i].function>> : i \in DOMAIN rows} |->
        rows[CHOOSE i \in DOMAIN rows : rows[i].function = k[2]]]

\* An accepting reply of both roles, or of the host alone: its builder, and the
\* acknowledge code that means acceptance; the lists it also takes stay empty.
Replier(b, code, roles) == [build |-> b, args |-> code, roles |-> roles]
Accepts(b, code) == Replier(b, code, {RoleHost, RoleEquipment})
HostAccepts(b, code) == Replier(b, code, {RoleHost})

catalogS1 == Rows(1, <<
    Primary(1, Bidirectional, NoDecoder),
    TwoForms(2, Bidirectional, FALSE, "DecodeS1F2Host", "DecodeS1F2"),
    Primary(3, HostToEquipment, "DecodeS1F3"),
    NoReply(4, EquipmentToHost, "DecodeS1F4"),
    Primary(5, HostToEquipment, "DecodeS1F5"),
    NoReply(6, EquipmentToHost, "DecodeS1F6"),
    Primary(7, HostToEquipment, "DecodeS1F7"),
    NoReply(8, EquipmentToHost, "DecodeS1F8"), Primary(9, HostToEquipment, NoDecoder),
    NoReply(10, EquipmentToHost, "DecodeS1F10"),
    Primary(11, HostToEquipment, "DecodeS1F11"),
    NoReply(12, EquipmentToHost, "DecodeS1F12"),
    TwoForms(13, Bidirectional, TRUE, "DecodeS1F13Host", "DecodeS1F13"),
    TwoForms(14, Bidirectional, FALSE, "DecodeS1F14Host", "DecodeS1F14"),
    Primary(15, HostToEquipment, NoDecoder), NoReply(16, EquipmentToHost, "DecodeS1F16"),
    Primary(17, HostToEquipment, NoDecoder), NoReply(18, EquipmentToHost, "DecodeS1F18"),
    Primary(19, Bidirectional, "DecodeS1F19"),
    NoReply(20, Bidirectional, "DecodeS1F20"),
    Primary(21, HostToEquipment, "DecodeS1F21"),
    NoReply(22, EquipmentToHost, "DecodeS1F22"),
    Primary(23, HostToEquipment, "DecodeS1F23"),
    NoReply(24, EquipmentToHost, "DecodeS1F24")>>)

catalogS2 == Rows(2, <<
    Primary(1, Bidirectional, "DecodeS2F1"), NoReply(2, Bidirectional, "DecodeS2F2"),
    Primary(3, Bidirectional, "DecodeS2F3"), NoReply(4, Bidirectional, "DecodeS2F4"),
    Primary(5, Bidirectional, "DecodeS2F5"), NoReply(6, Bidirectional, "DecodeS2F6"),
    Primary(7, HostToEquipment, "DecodeS2F7"),
    NoReply(8, EquipmentToHost, "DecodeS2F8"),
    Primary(9, HostToEquipment, "DecodeS2F9"),
    NoReply(10, EquipmentToHost, "DecodeS2F10"), Primary(11, Bidirectional, NoDecoder),
    NoReply(12, Bidirectional, "DecodeS2F12"),
    Primary(13, HostToEquipment, "DecodeS2F13"),
    NoReply(14, EquipmentToHost, "DecodeS2F14"),
    Primary(15, HostToEquipment, "DecodeS2F15"),
    NoReply(16, EquipmentToHost, "DecodeS2F16"), Primary(17, Bidirectional, NoDecoder),
    NoReply(18, Bidirectional, "DecodeS2F18"),
    Primary(19, HostToEquipment, "DecodeS2F19"),
    NoReply(20, EquipmentToHost, "DecodeS2F20"),
    Primary(21, HostToEquipment, "DecodeS2F21"),
    NoReply(22, EquipmentToHost, "DecodeS2F22"),
    Primary(23, HostToEquipment, "DecodeS2F23"),
    NoReply(24, EquipmentToHost, "DecodeS2F24"),
    Primary(25, Bidirectional, "DecodeS2F25"),
    NoReply(26, Bidirectional, "DecodeS2F26"),
    Primary(27, HostToEquipment, "DecodeS2F27"),
    NoReply(28, EquipmentToHost, "DecodeS2F28"),
    Primary(29, HostToEquipment, "DecodeS2F29"),
    NoReply(30, EquipmentToHost, "DecodeS2F30"),
    Primary(31, HostToEquipment, "DecodeS2F31"),
    NoReply(32, EquipmentToHost, "DecodeS2F32"),
    Primary(33, HostToEquipment, "DecodeS2F33"),
    NoReply(34, EquipmentToHost, "DecodeS2F34"),
    Primary(35, HostToEquipment, "DecodeS2F35"),
    NoReply(36, EquipmentToHost, "DecodeS2F36"),
    Primary(37, HostToEquipment, "DecodeS2F37"),
    NoReply(38, EquipmentToHost, "DecodeS2F38"),
    Primary(39, HostToEquipment, "DecodeS2F39"),
    NoReply(40, EquipmentToHost, "DecodeS2F40"),
    Primary(41, HostToEquipment, "DecodeS2F41"),
    NoReply(42, EquipmentToHost, "DecodeS2F42"),
    Primary(43, HostToEquipment, "DecodeS2F43"),
    NoReply(44, EquipmentToHost, "DecodeS2F44"),
    Primary(45, HostToEquipment, "DecodeS2F45"),
    NoReply(46, EquipmentToHost, "DecodeS2F46"),
    Primary(47, HostToEquipment, "DecodeS2F47"),
    NoReply(48, EquipmentToHost, "DecodeS2F48"),
    Primary(49, HostToEquipment, "DecodeS2F49"),
    NoReply(50, EquipmentToHost, "DecodeS2F50")>>)

catalogS3 == Rows(3, <<
    Primary(1, HostToEquipment, NoDecoder), NoReply(2, EquipmentToHost, "DecodeS3F2"),
    Primary(3, HostToEquipment, NoDecoder), NoReply(4, EquipmentToHost, "DecodeS3F4"),
    Primary(5, EquipmentToHost, "DecodeS3F5"),
    NoReply(6, HostToEquipment, "DecodeS3F6"),
    Primary(7, EquipmentToHost, "DecodeS3F7"),
    NoReply(8, HostToEquipment, "DecodeS3F8"),
    Primary(9, EquipmentToHost, "DecodeS3F9"),
    NoReply(10, HostToEquipment, "DecodeS3F10"),
    Primary(11, EquipmentToHost, "DecodeS3F11"),
    NoReply(12, HostToEquipment, "DecodeS3F12"),
    Primary(13, HostToEquipment, "DecodeS3F13"),
    NoReply(14, EquipmentToHost, "DecodeS3F14"),
    Primary(15, HostToEquipment, "DecodeS3F15"),
    NoReply(16, EquipmentToHost, "DecodeS3F16"),
    Primary(17, HostToEquipment, "DecodeS3F17"),
    NoReply(18, EquipmentToHost, "DecodeS3F18"), Primary(19, HostToEquipment, NoDecoder),
    NoReply(20, EquipmentToHost, "DecodeS3F20"),
    Primary(21, HostToEquipment, "DecodeS3F21"),
    NoReply(22, EquipmentToHost, "DecodeS3F22"),
    Primary(23, HostToEquipment, "DecodeS3F23"),
    NoReply(24, EquipmentToHost, "DecodeS3F24"),
    Primary(25, HostToEquipment, "DecodeS3F25"),
    NoReply(26, EquipmentToHost, "DecodeS3F26"),
    Primary(27, HostToEquipment, "DecodeS3F27"),
    NoReply(28, EquipmentToHost, "DecodeS3F28"),
    Primary(29, HostToEquipment, "DecodeS3F29"),
    NoReply(30, EquipmentToHost, "DecodeS3F30"),
    Primary(31, HostToEquipment, "DecodeS3F31"),
    NoReply(32, EquipmentToHost, "DecodeS3F32"), Primary(33, HostToEquipment, NoDecoder),
    NoReply(34, EquipmentToHost, "DecodeS3F34"),
    Primary(35, HostToEquipment, "DecodeS3F35"),
    NoReply(36, EquipmentToHost, "DecodeS3F36")>>)

catalogS4 == Rows(4, <<
    Primary(1, Bidirectional, "DecodeS4F1"), NoReply(2, Bidirectional, "DecodeS4F2"),
    NoReply(3, Bidirectional, "DecodeS4F3"), NoReply(5, Bidirectional, "DecodeS4F5"),
    NoReply(7, Bidirectional, "DecodeS4F7"), NoReply(9, EquipmentToHost, "DecodeS4F9"),
    NoReply(11, EquipmentToHost, "DecodeS4F11"),
    NoReply(13, EquipmentToHost, "DecodeS4F13"),
    NoReply(15, EquipmentToHost, "DecodeS4F15"),
    Primary(17, Bidirectional, "DecodeS4F17"),
    NoReply(18, Bidirectional, "DecodeS4F18"),
    Primary(19, HostToEquipment, "DecodeS4F19"),
    NoReply(20, EquipmentToHost, "DecodeS4F20"),
    Primary(21, HostToEquipment, "DecodeS4F21"),
    NoReply(22, EquipmentToHost, "DecodeS4F22"),
    Primary(23, EquipmentToHost, "DecodeS4F23"), NoReply(24, HostToEquipment, NoDecoder),
    Primary(25, HostToEquipment, "DecodeS4F25"),
    NoReply(26, EquipmentToHost, "DecodeS4F26"),
    NoReply(27, Bidirectional, "DecodeS4F27"),
    NoReply(29, Bidirectional, "DecodeS4F29"),
    NoReply(31, Bidirectional, "DecodeS4F31"),
    NoReply(33, Bidirectional, "DecodeS4F33"),
    NoReply(35, Bidirectional, "DecodeS4F35"),
    NoReply(37, Bidirectional, "DecodeS4F37"),
    NoReply(39, Bidirectional, "DecodeS4F39"),
    NoReply(41, Bidirectional, "DecodeS4F41")>>)

catalogS5 == Rows(5, <<
    Primary(1, EquipmentToHost, "DecodeS5F1"),
    NoReply(2, HostToEquipment, "DecodeS5F2"),
    Primary(3, HostToEquipment, "DecodeS5F3"),
    NoReply(4, EquipmentToHost, "DecodeS5F4"),
    Primary(5, HostToEquipment, "DecodeS5F5"),
    NoReply(6, EquipmentToHost, "DecodeS5F6"), Primary(7, HostToEquipment, NoDecoder),
    NoReply(8, EquipmentToHost, "DecodeS5F8"),
    Primary(9, EquipmentToHost, "DecodeS5F9"), NoReply(10, HostToEquipment, NoDecoder),
    Primary(11, EquipmentToHost, "DecodeS5F11"), NoReply(12, HostToEquipment, NoDecoder),
    Primary(13, HostToEquipment, "DecodeS5F13"),
    NoReply(14, EquipmentToHost, "DecodeS5F14"),
    Primary(15, EquipmentToHost, "DecodeS5F15"), NoReply(16, HostToEquipment, NoDecoder),
    Primary(17, HostToEquipment, "DecodeS5F17"),
    NoReply(18, EquipmentToHost, "DecodeS5F18")>>)

catalogS6 == Rows(6, <<
    Primary(1, EquipmentToHost, "DecodeS6F1"),
    NoReply(2, HostToEquipment, "DecodeS6F2"),
    Primary(3, EquipmentToHost, "DecodeS6F3"),
    NoReply(4, HostToEquipment, "DecodeS6F4"),
    Primary(5, EquipmentToHost, "DecodeS6F5"),
    NoReply(6, HostToEquipment, "DecodeS6F6"),
    Primary(7, HostToEquipment, "DecodeS6F7"),
    NoReply(8, EquipmentToHost, "DecodeS6F8"),
    Primary(9, EquipmentToHost, "DecodeS6F9"),
    NoReply(10, HostToEquipment, "DecodeS6F10"),
    Primary(11, EquipmentToHost, "DecodeS6F11"),
    NoReply(12, HostToEquipment, "DecodeS6F12"),
    Primary(13, EquipmentToHost, "DecodeS6F13"),
    NoReply(14, HostToEquipment, "DecodeS6F14"),
    Primary(15, HostToEquipment, "DecodeS6F15"),
    NoReply(16, EquipmentToHost, "DecodeS6F16"),
    Primary(17, HostToEquipment, "DecodeS6F17"),
    NoReply(18, EquipmentToHost, "DecodeS6F18"),
    Primary(19, HostToEquipment, "DecodeS6F19"),
    NoReply(20, EquipmentToHost, "DecodeS6F20"),
    Primary(21, HostToEquipment, "DecodeS6F21"),
    NoReply(22, EquipmentToHost, "DecodeS6F22"),
    Primary(23, HostToEquipment, "DecodeS6F23"),
    NoReply(24, EquipmentToHost, "DecodeS6F24"),
    Primary(25, Bidirectional, "DecodeS6F25"),
    NoReply(26, Bidirectional, "DecodeS6F26"),
    Primary(27, EquipmentToHost, "DecodeS6F27"),
    NoReply(28, HostToEquipment, "DecodeS6F28"),
    Primary(29, HostToEquipment, "DecodeS6F29"),
    NoReply(30, EquipmentToHost, "DecodeS6F30")>>)

catalogS7 == Rows(7, <<
    Primary(1, Bidirectional, "DecodeS7F1"), NoReply(2, Bidirectional, "DecodeS7F2"),
    Primary(3, Bidirectional, "DecodeS7F3"), NoReply(4, Bidirectional, "DecodeS7F4"),
    Primary(5, Bidirectional, "DecodeS7F5"), NoReply(6, Bidirectional, "DecodeS7F6"),
    Primary(7, EquipmentToHost, "DecodeS7F7"),
    NoReply(8, HostToEquipment, "DecodeS7F8"), Primary(9, Bidirectional, NoDecoder),
    NoReply(10, Bidirectional, "DecodeS7F10"),
    Primary(11, HostToEquipment, "DecodeS7F11"),
    NoReply(12, EquipmentToHost, "DecodeS7F12"),
    Primary(13, HostToEquipment, "DecodeS7F13"),
    NoReply(14, EquipmentToHost, "DecodeS7F14"),
    Primary(15, HostToEquipment, "DecodeS7F15"),
    NoReply(16, EquipmentToHost, "DecodeS7F16"),
    Primary(17, HostToEquipment, "DecodeS7F17"),
    NoReply(18, EquipmentToHost, "DecodeS7F18"), Primary(19, HostToEquipment, NoDecoder),
    NoReply(20, EquipmentToHost, "DecodeS7F20"), Primary(21, HostToEquipment, NoDecoder),
    NoReply(22, EquipmentToHost, "DecodeS7F22"),
    Primary(23, Bidirectional, "DecodeS7F23"),
    NoReply(24, Bidirectional, "DecodeS7F24"),
    Primary(25, Bidirectional, "DecodeS7F25"),
    NoReply(26, Bidirectional, "DecodeS7F26"),
    Primary(27, EquipmentToHost, "DecodeS7F27"), NoReply(28, HostToEquipment, NoDecoder),
    Primary(29, EquipmentToHost, "DecodeS7F29"),
    NoReply(30, HostToEquipment, "DecodeS7F30"),
    Primary(31, HostToEquipment, "DecodeS7F31"),
    NoReply(32, EquipmentToHost, "DecodeS7F32"),
    Primary(33, Bidirectional, "DecodeS7F33"),
    NoReply(34, Bidirectional, "DecodeS7F34"),
    Primary(35, Bidirectional, "DecodeS7F35"),
    NoReply(36, Bidirectional, "DecodeS7F36"),
    Primary(37, Bidirectional, "DecodeS7F37"),
    NoReply(38, Bidirectional, "DecodeS7F38"),
    Primary(39, Bidirectional, "DecodeS7F39"),
    NoReply(40, Bidirectional, "DecodeS7F40"),
    Primary(41, Bidirectional, "DecodeS7F41"),
    NoReply(42, Bidirectional, "DecodeS7F42"),
    Primary(43, Bidirectional, "DecodeS7F43"),
    NoReply(44, Bidirectional, "DecodeS7F44")>>)

catalogS8 == Rows(8, <<
    Primary(1, Bidirectional, NoDecoder), NoReply(2, Bidirectional, "DecodeS8F2"),
    Primary(3, Bidirectional, NoDecoder), NoReply(4, Bidirectional, "DecodeS8F4")>>)

catalogS9 == Rows(9, <<
    NoReply(1, EquipmentToHost, "DecodeS9F1"),
    NoReply(3, EquipmentToHost, "DecodeS9F3"),
    NoReply(5, EquipmentToHost, "DecodeS9F5"),
    NoReply(7, EquipmentToHost, "DecodeS9F7"),
    NoReply(9, EquipmentToHost, "DecodeS9F9"),
    NoReply(11, EquipmentToHost, "DecodeS9F11"),
    NoReply(13, EquipmentToHost, "DecodeS9F13")>>)

catalogS10 == Rows(10, <<
    Primary(1, EquipmentToHost, "DecodeS10F1"),
    NoReply(2, HostToEquipment, "DecodeS10F2"),
    Primary(3, HostToEquipment, "DecodeS10F3"),
    NoReply(4, EquipmentToHost, "DecodeS10F4"),
    Primary(5, HostToEquipment, "DecodeS10F5"),
    NoReply(6, EquipmentToHost, "DecodeS10F6"),
    NoReply(7, EquipmentToHost, "DecodeS10F7"),
    Primary(9, HostToEquipment, "DecodeS10F9"),
    NoReply(10, EquipmentToHost, "DecodeS10F10")>>)

catalogS12 == Rows(12, <<
    Primary(1, EquipmentToHost, "DecodeS12F1"),
    NoReply(2, HostToEquipment, "DecodeS12F2"),
    Primary(3, EquipmentToHost, "DecodeS12F3"),
    NoReply(4, HostToEquipment, "DecodeS12F4"),
    Primary(5, EquipmentToHost, "DecodeS12F5"),
    NoReply(6, HostToEquipment, "DecodeS12F6"),
    Primary(7, EquipmentToHost, "DecodeS12F7"),
    NoReply(8, HostToEquipment, "DecodeS12F8"),
    Primary(9, EquipmentToHost, "DecodeS12F9"),
    NoReply(10, HostToEquipment, "DecodeS12F10"),
    Primary(11, EquipmentToHost, "DecodeS12F11"),
    NoReply(12, HostToEquipment, "DecodeS12F12"),
    Primary(13, EquipmentToHost, "DecodeS12F13"),
    NoReply(14, HostToEquipment, "DecodeS12F14"),
    Primary(15, EquipmentToHost, "DecodeS12F15"),
    NoReply(16, HostToEquipment, "DecodeS12F16"),
    Primary(17, EquipmentToHost, "DecodeS12F17"),
    NoReply(18, HostToEquipment, "DecodeS12F18"),
    NoReply(19, Bidirectional, "DecodeS12F19")>>)

catalogS13 == Rows(13, <<
    Primary(1, Bidirectional, "DecodeS13F1"), NoReply(2, Bidirectional, "DecodeS13F2"),
    Primary(3, Bidirectional, "DecodeS13F3"), NoReply(4, Bidirectional, "DecodeS13F4"),
    Primary(5, Bidirectional, "DecodeS13F5"), NoReply(6, Bidirectional, "DecodeS13F6"),
    Primary(7, Bidirectional, "DecodeS13F7"), NoReply(8, Bidirectional, "DecodeS13F8"),
    Primary(9, Bidirectional, NoDecoder), NoReply(10, Bidirectional, NoDecoder),
    Primary(11, Bidirectional, "DecodeS13F11"),
    NoReply(12, Bidirectional, "DecodeS13F12"),
    Primary(13, Bidirectional, "DecodeS13F13"),
    NoReply(14, Bidirectional, "DecodeS13F14"),
    Primary(15, Bidirectional, "DecodeS13F15"),
    NoReply(16, Bidirectional, "DecodeS13F16")>>)

catalogS14 == Rows(14, <<
    Primary(1, Bidirectional, "DecodeS14F1"), NoReply(2, Bidirectional, "DecodeS14F2"),
    Primary(3, Bidirectional, "DecodeS14F3"), NoReply(4, Bidirectional, "DecodeS14F4"),
    Primary(5, Bidirectional, "DecodeS14F5"), NoReply(6, Bidirectional, "DecodeS14F6"),
    Primary(7, Bidirectional, "DecodeS14F7"), NoReply(8, Bidirectional, "DecodeS14F8"),
    Primary(9, Bidirectional, "DecodeS14F9"),
    NoReply(10, Bidirectional, "DecodeS14F10"),
    Primary(11, Bidirectional, "DecodeS14F11"),
    NoReply(12, Bidirectional, "DecodeS14F12"),
    Primary(13, Bidirectional, "DecodeS14F13"),
    NoReply(14, Bidirectional, "DecodeS14F14"),
    Primary(15, Bidirectional, "DecodeS14F15"),
    NoReply(16, Bidirectional, "DecodeS14F16"),
    Primary(17, Bidirectional, "DecodeS14F17"),
    NoReply(18, Bidirectional, "DecodeS14F18"),
    Primary(19, Bidirectional, "DecodeS14F19"),
    NoReply(20, Bidirectional, "DecodeS14F20"),
    Primary(21, Bidirectional, "DecodeS14F21"),
    NoReply(22, Bidirectional, "DecodeS14F22"),
    Primary(23, Bidirectional, "DecodeS14F23"),
    NoReply(24, Bidirectional, "DecodeS14F24"),
    Primary(25, Bidirectional, "DecodeS14F25"),
    NoReply(26, Bidirectional, "DecodeS14F26"),
    Primary(27, Bidirectional, "DecodeS14F27"),
    NoReply(28, Bidirectional, "DecodeS14F28")>>)

catalogS15 == Rows(15, <<
    Primary(1, Bidirectional, "DecodeS15F1"), NoReply(2, Bidirectional, "DecodeS15F2"),
    Primary(3, Bidirectional, "DecodeS15F3"), NoReply(4, Bidirectional, "DecodeS15F4"),
    Primary(5, Bidirectional, "DecodeS15F5"), NoReply(6, Bidirectional, "DecodeS15F6"),
    Primary(7, Bidirectional, "DecodeS15F7"), NoReply(8, Bidirectional, "DecodeS15F8"),
    Primary(9, Bidirectional, "DecodeS15F9"),
    NoReply(10, Bidirectional, "DecodeS15F10"),
    Primary(11, Bidirectional, "DecodeS15F11"),
    NoReply(12, Bidirectional, "DecodeS15F12"),
    Primary(13, Bidirectional, "DecodeS15F13"),
    NoReply(14, Bidirectional, "DecodeS15F14"),
    Primary(15, Bidirectional, "DecodeS15F15"),
    NoReply(16, Bidirectional, "DecodeS15F16"),
    Primary(17, Bidirectional, "DecodeS15F17"),
    NoReply(18, Bidirectional, "DecodeS15F18"),
    Primary(19, Bidirectional, "DecodeS15F19"),
    NoReply(20, Bidirectional, "DecodeS15F20"),
    Primary(21, Bidirectional, "DecodeS15F21"),
    NoReply(22, Bidirectional, "DecodeS15F22"),
    Primary(23, Bidirectional, "DecodeS15F23"),
    NoReply(24, Bidirectional, "DecodeS15F24"),
    Primary(25, Bidirectional, "DecodeS15F25"),
    NoReply(26, Bidirectional, "DecodeS15F26"),
    Primary(27, HostToEquipment, "DecodeS15F27"),
    NoReply(28, EquipmentToHost, "DecodeS15F28"),
    Primary(29, HostToEquipment, "DecodeS15F29"),
    NoReply(30, EquipmentToHost, "DecodeS15F30"),
    Primary(31, HostToEquipment, "DecodeS15F31"),
    NoReply(32, EquipmentToHost, "DecodeS15F32"),
    Primary(33, HostToEquipment, "DecodeS15F33"),
    NoReply(34, EquipmentToHost, "DecodeS15F34"),
    Primary(35, HostToEquipment, "DecodeS15F35"),
    NoReply(36, EquipmentToHost, "DecodeS15F36"),
    Primary(37, Bidirectional, "DecodeS15F37"),
    NoReply(38, Bidirectional, "DecodeS15F38"),
    Primary(39, Bidirectional, "DecodeS15F39"),
    NoReply(40, Bidirectional, "DecodeS15F40"),
    Primary(41, Bidirectional, "DecodeS15F41"),
    NoReply(42, Bidirectional, "DecodeS15F42"),
    Primary(43, Bidirectional, "DecodeS15F43"),
    NoReply(44, Bidirectional, "DecodeS15F44"),
    Primary(45, Bidirectional, "DecodeS15F45"),
    NoReply(46, Bidirectional, "DecodeS15F46"),
    Primary(47, Bidirectional, "DecodeS15F47"),
    NoReply(48, Bidirectional, "DecodeS15F48"),
    Primary(49, HostToEquipment, "DecodeS15F49"),
    NoReply(50, EquipmentToHost, "DecodeS15F50"),
    Primary(51, HostToEquipment, "DecodeS15F51"),
    NoReply(52, EquipmentToHost, "DecodeS15F52"),
    Primary(53, EquipmentToHost, "DecodeS15F53"),
    NoReply(54, HostToEquipment, NoDecoder)>>)

catalogS16 == Rows(16, <<
    Primary(1, HostToEquipment, "DecodeS16F1"),
    NoReply(2, EquipmentToHost, "DecodeS16F2"),
    Primary(3, HostToEquipment, "DecodeS16F3"),
    NoReply(4, EquipmentToHost, "DecodeS16F4"),
    Primary(5, HostToEquipment, "DecodeS16F5"),
    NoReply(6, EquipmentToHost, "DecodeS16F6"),
    Primary(7, EquipmentToHost, "DecodeS16F7"), NoReply(8, HostToEquipment, NoDecoder),
    Primary(9, EquipmentToHost, "DecodeS16F9"), NoReply(10, HostToEquipment, NoDecoder),
    Primary(11, HostToEquipment, "DecodeS16F11"),
    NoReply(12, EquipmentToHost, "DecodeS16F12"),
    Primary(15, HostToEquipment, "DecodeS16F15"),
    NoReply(16, EquipmentToHost, "DecodeS16F16"),
    Primary(17, HostToEquipment, "DecodeS16F17"),
    NoReply(18, EquipmentToHost, "DecodeS16F18"),
    Primary(19, HostToEquipment, NoDecoder),
    NoReply(20, EquipmentToHost, "DecodeS16F20"),
    Primary(21, HostToEquipment, NoDecoder),
    NoReply(22, EquipmentToHost, "DecodeS16F22"),
    Primary(23, HostToEquipment, "DecodeS16F23"),
    NoReply(24, EquipmentToHost, "DecodeS16F24"),
    Primary(25, HostToEquipment, "DecodeS16F25"),
    NoReply(26, EquipmentToHost, "DecodeS16F26"),
    Primary(27, HostToEquipment, "DecodeS16F27"),
    NoReply(28, EquipmentToHost, "DecodeS16F28"),
    Primary(29, HostToEquipment, "DecodeS16F29"),
    NoReply(30, EquipmentToHost, "DecodeS16F30")>>)

catalogS17 == Rows(17, <<
    Primary(1, HostToEquipment, "DecodeS17F1"),
    NoReply(2, EquipmentToHost, "DecodeS17F2"),
    Primary(3, HostToEquipment, "DecodeS17F3"),
    NoReply(4, EquipmentToHost, "DecodeS17F4"),
    Primary(5, HostToEquipment, "DecodeS17F5"),
    NoReply(6, EquipmentToHost, "DecodeS17F6"),
    Primary(7, HostToEquipment, "DecodeS17F7"),
    NoReply(8, EquipmentToHost, "DecodeS17F8"),
    Primary(9, HostToEquipment, "DecodeS17F9"),
    NoReply(10, EquipmentToHost, "DecodeS17F10"),
    Primary(11, HostToEquipment, "DecodeS17F11"),
    NoReply(12, EquipmentToHost, "DecodeS17F12"),
    Primary(13, HostToEquipment, "DecodeS17F13"),
    NoReply(14, EquipmentToHost, "DecodeS17F14")>>)

catalogS18 == Rows(18, <<
    Primary(1, HostToEquipment, "DecodeS18F1"),
    NoReply(2, EquipmentToHost, "DecodeS18F2"),
    Primary(3, HostToEquipment, "DecodeS18F3"),
    NoReply(4, EquipmentToHost, "DecodeS18F4"),
    Primary(5, HostToEquipment, "DecodeS18F5"),
    NoReply(6, EquipmentToHost, "DecodeS18F6"),
    Primary(7, HostToEquipment, "DecodeS18F7"),
    NoReply(8, EquipmentToHost, "DecodeS18F8"),
    Primary(9, HostToEquipment, "DecodeS18F9"),
    NoReply(10, EquipmentToHost, "DecodeS18F10"),
    Primary(11, HostToEquipment, "DecodeS18F11"),
    NoReply(12, EquipmentToHost, "DecodeS18F12"),
    Primary(13, HostToEquipment, "DecodeS18F13"),
    NoReply(14, EquipmentToHost, "DecodeS18F14"),
    Primary(15, HostToEquipment, "DecodeS18F15"),
    NoReply(16, EquipmentToHost, "DecodeS18F16")>>)

catalogS19 == Rows(19, <<
    Primary(1, Bidirectional, "DecodeS19F1"), NoReply(2, Bidirectional, "DecodeS19F2"),
    Primary(3, HostToEquipment, "DecodeS19F3"),
    NoReply(4, EquipmentToHost, "DecodeS19F4"),
    Primary(5, Bidirectional, "DecodeS19F5"), NoReply(6, Bidirectional, "DecodeS19F6"),
    Primary(7, Bidirectional, "DecodeS19F7"), NoReply(8, Bidirectional, "DecodeS19F8"),
    Primary(9, Bidirectional, "DecodeS19F9"),
    NoReply(10, Bidirectional, "DecodeS19F10"),
    Primary(11, Bidirectional, "DecodeS19F11"), NoReply(12, Bidirectional, NoDecoder),
    Primary(13, Bidirectional, "DecodeS19F13"), NoReply(14, Bidirectional, NoDecoder),
    Primary(15, HostToEquipment, "DecodeS19F15"),
    NoReply(16, EquipmentToHost, "DecodeS19F16"),
    Primary(17, HostToEquipment, "DecodeS19F17"),
    NoReply(18, EquipmentToHost, "DecodeS19F18"),
    Primary(19, Bidirectional, "DecodeS19F19"),
    NoReply(20, Bidirectional, "DecodeS19F20")>>)

acceptRepliesS1 == <<
    HostAccepts("S1F2Host", <<>>), HostAccepts("S1F14Host", "COMMACK" :> <<0>>),
    Accepts("S1F16", "OFLACK" :> <<0>>), Accepts("S1F18", "ONLACK" :> <<0>>)>>

acceptRepliesS2 == <<
    Accepts("S2F2", "GRANT" :> <<0>>), Accepts("S2F4", "SPAACK" :> <<0>>),
    Accepts("S2F8", "CSAACK" :> <<0>>), Accepts("S2F16", "EAC" :> <<0>>),
    Accepts("S2F24", "TIAACK" :> <<0>>), Accepts("S2F32", "TIACK" :> <<0>>),
    Accepts("S2F34", "DRACK" :> <<0>>), Accepts("S2F36", "LRACK" :> <<0>>),
    Accepts("S2F38", "ERACK" :> <<0>>), Accepts("S2F40", "GRANT" :> <<0>>),
    Accepts("S2F42", "HCACK" :> <<0>>), Accepts("S2F44", "RSPACK" :> <<0>>),
    Accepts("S2F46", "VLAACK" :> <<0>>)>>

acceptRepliesS3 == <<
    Accepts("S3F6", "ACKC3" :> <<0>>), Accepts("S3F8", "ACKC3" :> <<0>>),
    Accepts("S3F10", "ACKC3" :> <<0>>), Accepts("S3F14", "MIDAC" :> <<0>>),
    Accepts("S3F16", "GRANT" :> <<0>>), Accepts("S3F18", "CAACK" :> <<0>>),
    Accepts("S3F20", "CAACK" :> <<0>>), Accepts("S3F22", "CAACK" :> <<0>>),
    Accepts("S3F24", "CAACK" :> <<0>>), Accepts("S3F26", "CAACK" :> <<0>>),
    Accepts("S3F28", "CAACK" :> <<0>>), Accepts("S3F32", "CAACK" :> <<0>>),
    Accepts("S3F34", "CAACK" :> <<0>>)>>

acceptRepliesS4 == <<
    Accepts("S4F2", "RSACK" :> <<0>>), Accepts("S4F18", "RRACK" :> <<0>>),
    Accepts("S4F26", "GRANT" :> <<0>>)>>

acceptRepliesS5 == <<
    Accepts("S5F2", "ACKC5" :> <<0>>), Accepts("S5F4", "ACKC5" :> <<0>>)>>

acceptRepliesS6 == <<
    Accepts("S6F2", "ACKC6" :> <<0>>), Accepts("S6F4", "ACKC6" :> <<0>>),
    Accepts("S6F6", "GRANT6" :> <<0>>), Accepts("S6F10", "ACKC6" :> <<0>>),
    Accepts("S6F12", "ACKC6" :> <<0>>), Accepts("S6F14", "ACKC6" :> <<0>>),
    Accepts("S6F24", "RSDA" :> <<0>>), Accepts("S6F26", "ACKC6" :> <<0>>)>>

acceptRepliesS7 == <<
    Accepts("S7F2", "PPGNT" :> <<0>>), Accepts("S7F4", "ACKC7" :> <<0>>),
    Accepts("S7F12", "ACKC7" :> <<0>>), Accepts("S7F14", "ACKC7" :> <<0>>),
    Accepts("S7F16", "ACKC7" :> <<0>>), Accepts("S7F18", "ACKC7" :> <<0>>),
    Accepts("S7F24", "ACKC7" :> <<0>>), Accepts("S7F30", "PPGNT" :> <<0>>),
    Accepts("S7F32", "ACKC7" :> <<0>>), Accepts("S7F38", "ACKC7" :> <<0>>),
    Accepts("S7F40", "ACKC7" :> <<0>>), Accepts("S7F42", "ACKC7" :> <<0>>),
    Accepts("S7F44", "ACKC7" :> <<0>>)>>

acceptRepliesS10 == <<
    Accepts("S10F2", "ACKC10" :> <<0>>), Accepts("S10F4", "ACKC10" :> <<0>>),
    Accepts("S10F6", "ACKC10" :> <<0>>), Accepts("S10F10", "ACKC10" :> <<0>>)>>

acceptRepliesS12 == <<
    Accepts("S12F2", "SDACK" :> <<0>>), Accepts("S12F6", "GRNT1" :> <<0>>),
    Accepts("S12F8", "MDACK" :> <<0>>), Accepts("S12F10", "MDACK" :> <<0>>),
    Accepts("S12F12", "MDACK" :> <<0>>)>>

acceptRepliesS13 == <<
    Accepts("S13F12", "GRANT" :> <<0>>), Accepts("S13F14", "TBLACK" :> <<0>>)>>

acceptRepliesS14 == <<
    Accepts("S14F22", "DATAACK" :> <<0>>), Accepts("S14F24", "GRANT" :> <<0>>)>>

acceptRepliesS15 == <<
    Accepts("S15F2", "RMGRNT" :> <<0>>), Accepts("S15F4", "RMACK" :> <<0>>),
    Accepts("S15F6", "RMACK" :> <<0>>), Accepts("S15F14", "RMACK" :> <<0>>),
    Accepts("S15F20", "RMACK" :> <<0>>), Accepts("S15F34", "RMACK" :> <<0>>),
    Accepts("S15F36", "RMACK" :> <<0>>), Accepts("S15F38", "RMACK" :> <<0>>),
    Accepts("S15F40", "RMACK" :> <<0>>), Accepts("S15F42", "RMACK" :> <<0>>),
    Accepts("S15F48", "RMACK" :> <<0>>), Accepts("S15F50", "ACKC15" :> <<0>>),
    Accepts("S15F52", "ACKC15" :> <<0>>)>>

acceptRepliesS16 == <<
    Accepts("S16F2", "GRANT" :> <<0>>)>>

acceptRepliesS19 == <<
    Accepts("S19F20", "GRANT" :> <<0>>)>>

-----------------------------------------------------------------------------
(* The lookups. *)

catalog ==
    catalogS1 @@ catalogS2 @@ catalogS3 @@ catalogS4 @@ catalogS5 @@ catalogS6
    @@ catalogS7 @@ catalogS8 @@ catalogS9 @@ catalogS10 @@ catalogS12 @@ catalogS13
    @@ catalogS14 @@ catalogS15 @@ catalogS16 @@ catalogS17 @@ catalogS18
    @@ catalogS19

acceptReplies ==
    acceptRepliesS1 \o acceptRepliesS2 \o acceptRepliesS3 \o acceptRepliesS4
    \o acceptRepliesS5 \o acceptRepliesS6 \o acceptRepliesS7 \o acceptRepliesS10
    \o acceptRepliesS12 \o acceptRepliesS13 \o acceptRepliesS14 \o acceptRepliesS15
    \o acceptRepliesS16 \o acceptRepliesS19

NoInfo == [ok |-> FALSE, direction |-> Bidirectional, replyExpected |-> FALSE,
           replyFunction |-> 0, decode |-> NoBody]

Decoder(name) == IF name = NoDecoder THEN NoBody ELSE Decoders[name]

\* The form of a message that sender sends, whatever the message's direction.
InfoOfRow(row, sender) ==
    [ok |-> TRUE, direction |-> row.direction, replyExpected |-> row.replyExpected,
     replyFunction |-> row.replyFunction, decode |-> Decoder(row.decode[sender])]
LookupIn(rows, s, f, sender) ==
    IF ~valid(sender) \/ <<s, f>> \notin DOMAIN rows THEN NoInfo
    ELSE InfoOfRow(rows[<<s, f>>], sender)
Lookup(s, f, sender) == LookupIn(catalog, s, f, sender)

NoMessage == Message(0, 0, FALSE, NewEmptyItem)

\* The body of an accepting reply: the code given, every other argument empty.
AcceptBody(a) ==
    LET node == Builders[a.build].node
    IN  Build(node, a.args @@ [p \in Params(node) |-> <<>>])

\* A primary f its sender may send and that waits for its reply.
WaitsFor(primary, f, sender) ==
    /\ primary.ok /\ primary.replyFunction = f + 1 /\ primary.replyExpected
    /\ allows(primary.direction, sender)

Builds(a, s, f) == Builders[a.build].stream = s /\ Builders[a.build].function = f

\* The acceptances of the reply s, f that are the replier's form of it.
\* Faulty variant: of either form.
AcceptRowsAny(s, f, replier) ==
    {a \in Range(acceptReplies) : Builds(a, s, f)}
AcceptRows(s, f, replier) ==
    {a \in Range(acceptReplies) : Builds(a, s, f) /\ replier \in a.roles}

\* The reply that accepts the primary f with this answer, for the role that answers.
Acceptance(primary, answer, rows, f, replier) ==
    IF /\ valid(replier) /\ f % 2 # 0 /\ WaitsFor(primary, f, peer(replier))
       /\ answer.ok /\ allows(answer.direction, replier) /\ rows # {}
    THEN LET a == CHOOSE a \in rows : TRUE
         IN  [ok |-> TRUE, message |-> Builders[a.build], body |-> AcceptBody(a)]
    ELSE [ok |-> FALSE, message |-> NoMessage, body |-> EmptyItem]
AcceptReply(s, f, replier) ==
    Acceptance(Lookup(s, f, peer(replier)), Lookup(s, f + 1, replier),
               AcceptRows(s, f + 1, replier), f, replier)

\* Abort: the transaction of a primary of stream s ends with SxF0.
Abort(s) == [ok |-> TRUE, message |-> Message(s, 0, FALSE, NewEmptyItem),
             body |-> EmptyItem]
=============================================================================
