CONSTANT Vocabulary <- AllTexts
SPECIFICATION Spec
INVARIANTS
    TypeOK
    TokensTileTheText
    NewlinesAreNoted
    ExclamationsAreTold
    StringsKeepTheirMeaning
    RejectsOnlyIllFormed
