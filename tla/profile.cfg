SPECIFICATION SceneSpec
CONSTANTS
    w1 = w1  w2 = w2  k1 = k1  k2 = k2  k3 = k3  jo = jo  sy = sy  amman = amman
    NONE = NONE  UNDEFINED = UNDEFINED
    Workers <- TwoWorkers
    Sections = {"educations", "targetDegrees", "languages", "specialStatuses"}
    Fields = {"nationalityId"}
    Countries <- TwoCountries
    Cities <- OneCity
    CountryOf <- CityCountry
    Keys <- ThreeKeys
    Ids <- ThreeKeys
    Limit <- TightLimits
    DefaultLimit <- OneRow
    Settings <- SomeSettings
    Calls = {"get", "update", "add", "change", "remove", "settingsFault", "fault"}
SYMMETRY Symmetry
INVARIANTS MatchableAgrees LimitOvershootBounded
PROPERTIES AloneLeavesCurrent AloneLeavesPlace
