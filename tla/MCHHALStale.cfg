CONSTANTS
    UserSources = {"k.cu"}
    SavedSources = {"kernel-h.c"}
    Prebuilt = {"p"}
    Binaries = {"k", "kernel-h"}
    BinaryOf <- MCBinaryOf
    Expiration = 1
    Kernels = {"k0", "k1"}
    Buffers = {"b0"}
    Events = {"e0"}
    MaxTime = 2
    Setups <- MCSetups
    MaxVersion = 2
SPECIFICATION Spec
INVARIANT UpToDate
