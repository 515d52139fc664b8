SPECIFICATION Spec
CONSTANTS
    P = 29
    L = 5
    COEFF_A = 25
    COEFF_D = 21
    GENERATOR <- MCGenerator
    FqBits = 5
    FrBits = 3
    ark <- MCark
    mds <- MCmds
    FullRounds = 2
    PartialRounds = 1
    Alpha = 5
    MaxWidth = 13
    domain_tag <- MCdomain_tag
    DigestBits = 6
    MaxCounter = 2
    blake2b <- MCblake2b
    MaxStream = 2
    ByteBase = 4
    ChunkBytes = 2
    Chunks = 2
    LimbBase = 16
    UsizeBase = 8
    from_utf8 <- MCfrom_utf8
    path_digest <- MCpath_digest
    TextStreams <- MCTextStreams
    Texts <- MCTexts
    ScalarTexts <- MCScalarTexts
    CoordTexts <- MCCoordTexts
    PeerTexts <- MCPeerTexts
    Seeds <- MCSeeds
    Messages <- MCMessages
    Streams <- MCStreams
    Elements <- MCElements
    CircuitMessages <- MCCircuitMessages
    CircuitStreams <- MCCircuitStreams
INVARIANTS
    OnlySubgroupPoints
    EcdhAgrees
    SignaturesVerify
    CircuitsAgree
    HashesDefined
    TapesDistinct
    GeneratorsSound
    CommitHomomorphic
    SymmetricAgree
    TextDecodesItself
